---- MODULE Spec2Model ----
(***************************************************************************)
(* Curriculum mapping store: the SQLite tables of SQLiteStorage, the HTTP  *)
(* handlers that drive them, and the full-database export / import path.   *)
(*                                                                         *)
(* A database is a record of tables, each table a set of row records.      *)
(* Storage methods are operators from a database (and arguments) to a      *)
(* result record holding the next database and what the method returned   *)
(* or threw; the actions apply one HTTP handler each.                      *)
(*                                                                         *)
(* The created_at / updated_at columns are carried verbatim by export and  *)
(* import and read by no decision in the code; they are not represented.   *)
(***************************************************************************)
EXTENDS Integers, Sequences, FiniteSets, TLC

VARIABLES navigation_tabs, dropdown_items, table_configs, curriculum_rows,
          standards, curriculum_standards, school_year, sqlite_sequence, last,
          suspended

vars == <<navigation_tabs, dropdown_items, table_configs, curriculum_rows,
          standards, curriculum_standards, school_year, sqlite_sequence, last,
          suspended>>

(***************************************************************************)
(* Bounds on the AUTOINCREMENT counters.                                   *)
(***************************************************************************)
MaxTabId == 3
MaxDropdownId == 3
MaxConfigId == 2
MaxRowId == 2
MaxStandardId == 2
MaxSchoolYearId == 3

(***************************************************************************)
(* The database seen as one value.                                         *)
(***************************************************************************)
DB ==
  [navigation_tabs |-> navigation_tabs, dropdown_items |-> dropdown_items,
   table_configs |-> table_configs, curriculum_rows |-> curriculum_rows,
   standards |-> standards, curriculum_standards |-> curriculum_standards,
   school_year |-> school_year, sqlite_sequence |-> sqlite_sequence]

\* The database after the statements of a handler step.
Write(d) ==
  /\ navigation_tabs' = d.navigation_tabs
  /\ dropdown_items' = d.dropdown_items
  /\ table_configs' = d.table_configs
  /\ curriculum_rows' = d.curriculum_rows
  /\ standards' = d.standards
  /\ curriculum_standards' = d.curriculum_standards
  /\ school_year' = d.school_year
  /\ sqlite_sequence' = d.sqlite_sequence

\* A handler that runs from the request to the response: it leaves the
\* handlers that wait at an await where they are.
Commit(d) == Write(d) /\ UNCHANGED suspended

\* The six entity tables, without the AUTOINCREMENT bookkeeping.
Tables(d) ==
  [navigation_tabs |-> d.navigation_tabs, dropdown_items |-> d.dropdown_items,
   table_configs |-> d.table_configs, curriculum_rows |-> d.curriculum_rows,
   standards |-> d.standards, curriculum_standards |-> d.curriculum_standards,
   school_year |-> d.school_year]

Max(S) == IF S = {} THEN 0 ELSE CHOOSE x \in S : \A y \in S : y <= x

Ids(T) == {r.id : r \in T}

\* INTEGER PRIMARY KEY AUTOINCREMENT: one more than the largest rowid the
\* table has ever held.
NextRowid(d, t) == Max({d.sqlite_sequence[t]} \cup Ids(d[t])) + 1

\* sqlite_sequence after a row with rowid id went into table t.
BumpSequence(d, t, id) ==
  [d.sqlite_sequence EXCEPT ![t] = Max({@, id})]

(***************************************************************************)
(* DELETE statements with the ON DELETE CASCADE clauses of the schema      *)
(* (foreign_keys = ON).                                                    *)
(***************************************************************************)
\* Each takes the set of rows its WHERE clause selects.
DeleteFromCurriculumRows(d, gone) ==
  [d EXCEPT !.curriculum_rows = @ \ gone,
            !.curriculum_standards = {l \in @ : l.curriculum_id \notin Ids(gone)}]

DeleteFromTableConfigs(d, gone) ==
  [d EXCEPT !.table_configs = @ \ gone]

DeleteFromDropdownItems(d, gone) ==
  [d EXCEPT !.dropdown_items = @ \ gone,
            !.table_configs = {c \in @ : c.dropdownId \notin Ids(gone)}]

DeleteFromNavigationTabs(d, gone) ==
  LET items == {i \in d.dropdown_items : i.tabId \in Ids(gone)} IN
  [d EXCEPT !.navigation_tabs = @ \ gone,
            !.dropdown_items = @ \ items,
            !.table_configs = {c \in @ : /\ c.tabId \notin Ids(gone)
                                         /\ c.dropdownId \notin Ids(items)}]

\* db.transaction(fn)(): COMMIT when fn returns, ROLLBACK when it throws.
transaction(d, r) == IF r.threw THEN [r EXCEPT !.db = d] ELSE r

(***************************************************************************)
(* initializeDatabase on an empty file, with the default navigation        *)
(* structure cut down to one grade tab and the Admin tab, one subject each.*)
(***************************************************************************)
DefaultTabs ==
  { [id |-> 1, name |-> "KG", displayName |-> "KG", order |-> 0, isActive |-> 1],
    [id |-> 2, name |-> "Admin", displayName |-> "Admin", order |-> 10, isActive |-> 1] }

DefaultDropdownItems ==
  { [id |-> 1, tabId |-> 1, name |-> "Math", displayName |-> "Math", order |-> 0, isActive |-> 1],
    [id |-> 2, tabId |-> 2, name |-> "Database Export", displayName |-> "Database Export",
     order |-> 0, isActive |-> 1] }

DefaultSchoolYear == { [id |-> 1, year |-> "2025-2026"] }

initializeDatabase ==
  [navigation_tabs |-> DefaultTabs,
   dropdown_items |-> DefaultDropdownItems,
   table_configs |-> {},
   curriculum_rows |-> {},
   standards |-> {},
   curriculum_standards |-> {},
   school_year |-> DefaultSchoolYear,
   sqlite_sequence |->
     [navigation_tabs |-> 2, dropdown_items |-> 2, table_configs |-> 0,
      curriculum_rows |-> 0, standards |-> 0, school_year |-> 1]]

Init ==
  /\ navigation_tabs = initializeDatabase.navigation_tabs
  /\ dropdown_items = initializeDatabase.dropdown_items
  /\ table_configs = initializeDatabase.table_configs
  /\ curriculum_rows = initializeDatabase.curriculum_rows
  /\ standards = initializeDatabase.standards
  /\ curriculum_standards = initializeDatabase.curriculum_standards
  /\ school_year = initializeDatabase.school_year
  /\ sqlite_sequence = initializeDatabase.sqlite_sequence
  /\ last = [op |-> "init"]
  /\ suspended = {}

(***************************************************************************)
(* What a storage method hands back: the database it leaves, whether it    *)
(* threw, the error message, and the returned value (an update returns the *)
(* set holding the updated row, empty for null).                           *)
(***************************************************************************)
Returned(d, v) == [db |-> d, threw |-> FALSE, error |-> "", value |-> v]
Threw(d, e) == [db |-> d, threw |-> TRUE, error |-> e, value |-> "none"]

ErrReserved == "Order index 100 and above are reserved for system tabs"
ErrModifyAdmin == "Cannot modify the Admin tab - it is system-managed"
ErrDeleteAdmin == "Cannot delete the Admin tab - it is system-managed"
ErrRowNotFound == "Curriculum row not found"
ErrConstraint == "SQLITE_CONSTRAINT"
ErrBind == "SQLite3 can only bind numbers, strings, bigints, buffers, and null"
ErrStorage == "SQLITE_IOERR"

\* data.isActive ? 1 : 0
Bit(b) == IF b THEN 1 ELSE 0

\* SET clause of the dynamic UPDATE statements: the supplied fields only.
Patched(row, data) ==
  [f \in DOMAIN row |->
     IF f \in DOMAIN data
       THEN (IF f = "isActive" THEN Bit(data[f]) ELSE data[f])
       ELSE row[f]]

(***************************************************************************)
(* Navigation tabs                                                         *)
(***************************************************************************)
getNavigationTabById(d, id) == {t \in d.navigation_tabs : t.id = id}

\* The creation with the reserved range starting one too high.
createNavigationTabAbove100(d, data) ==
  IF data.order > 100 THEN Threw(d, ErrReserved)
  ELSE IF \E t \in d.navigation_tabs : t.name = data.name THEN Threw(d, ErrConstraint)
  ELSE LET id == NextRowid(d, "navigation_tabs")
           tab == [id |-> id, name |-> data.name, displayName |-> data.displayName,
                   order |-> data.order, isActive |-> 1] IN
       Returned([d EXCEPT !.navigation_tabs = @ \cup {tab},
                          !.sqlite_sequence = BumpSequence(d, "navigation_tabs", id)],
                tab)

createNavigationTab(d, data) ==
  IF data.order >= 100 THEN Threw(d, ErrReserved)
  ELSE IF \E t \in d.navigation_tabs : t.name = data.name THEN Threw(d, ErrConstraint)
  ELSE LET id == NextRowid(d, "navigation_tabs")
           tab == [id |-> id, name |-> data.name, displayName |-> data.displayName,
                   order |-> data.order, isActive |-> 1] IN
       Returned([d EXCEPT !.navigation_tabs = @ \cup {tab},
                          !.sqlite_sequence = BumpSequence(d, "navigation_tabs", id)],
                tab)

\* The update without the guard on the Admin tab.
updateNavigationTabUnguarded(d, id, data) ==
  LET current == getNavigationTabById(d, id) IN
  IF current = {} THEN Returned(d, {})
  ELSE LET cur == CHOOSE t \in current : TRUE IN
    IF "order" \in DOMAIN data /\ data.order >= 100 THEN Threw(d, ErrReserved)
    ELSE IF DOMAIN data = {} THEN Returned(d, {})
    ELSE IF /\ "name" \in DOMAIN data
            /\ \E t \in d.navigation_tabs : t.id # id /\ t.name = data.name
      THEN Threw(d, ErrConstraint)
    ELSE LET new == Patched(cur, data) IN
         Returned([d EXCEPT !.navigation_tabs = (@ \ {cur}) \cup {new}], {new})

updateNavigationTab(d, id, data) ==
  LET current == getNavigationTabById(d, id) IN
  IF current = {} THEN Returned(d, {})
  ELSE LET cur == CHOOSE t \in current : TRUE IN
    IF cur.name = "Admin" THEN Threw(d, ErrModifyAdmin)
    ELSE IF "order" \in DOMAIN data /\ data.order >= 100 THEN Threw(d, ErrReserved)
    ELSE IF DOMAIN data = {} THEN Returned(d, {})
    ELSE IF /\ "name" \in DOMAIN data
            /\ \E t \in d.navigation_tabs : t.id # id /\ t.name = data.name
      THEN Threw(d, ErrConstraint)
    ELSE LET new == Patched(cur, data) IN
         Returned([d EXCEPT !.navigation_tabs = (@ \ {cur}) \cup {new}], {new})

\* The statements of the cascade, in order; fault = k makes the k-th write
\* statement raise (0: none does).
deleteNavigationTabBody(d, id, fault) ==
  LET dropdownItems == {i.id : i \in {i \in d.dropdown_items : i.tabId = id}}
      tableConfigs == {c \in d.table_configs : c.dropdownId \in dropdownItems}
      names == {c.tableName : c \in tableConfigs}
      d3 == DeleteFromCurriculumRows(d, {r \in d.curriculum_rows : r.tableName \in names})
      d4 == DeleteFromTableConfigs(d3, {c \in d3.table_configs :
              c.dropdownId \in {i.id : i \in {j \in d3.dropdown_items : j.tabId = id}}})
      d5 == DeleteFromDropdownItems(d4, {i \in d4.dropdown_items : i.tabId = id})
      d6 == DeleteFromNavigationTabs(d5, {t \in d5.navigation_tabs : t.id = id})
  IN  CASE fault = 1 -> Threw(d, ErrStorage)
        [] fault = 2 -> Threw(d3, ErrStorage)
        [] fault = 3 -> Threw(d4, ErrStorage)
        [] fault = 4 -> Threw(d5, ErrStorage)
        [] OTHER -> Returned(d6, [tabDeleted |-> Cardinality(getNavigationTabById(d5, id)),
                                  dropdownItemsDeleted |-> Cardinality(dropdownItems),
                                  tableConfigsDeleted |-> Cardinality(tableConfigs)])

\* The cascade run outside a transaction: what a failed statement leaves stays.
deleteNavigationTabUnwrapped(d, id, fault) ==
  IF \E t \in getNavigationTabById(d, id) : t.name = "Admin" THEN Threw(d, ErrDeleteAdmin)
  ELSE LET result == deleteNavigationTabBody(d, id, fault) IN
       IF result.threw THEN result
       ELSE Returned(result.db, result.value.tabDeleted > 0)

deleteNavigationTab(d, id, fault) ==
  IF \E t \in getNavigationTabById(d, id) : t.name = "Admin" THEN Threw(d, ErrDeleteAdmin)
  ELSE LET result == transaction(d, deleteNavigationTabBody(d, id, fault)) IN
       IF result.threw THEN result
       ELSE Returned(result.db, result.value.tabDeleted > 0)


(***************************************************************************)
(* Dropdown items                                                          *)
(***************************************************************************)
getDropdownItemById(d, id) == {i \in d.dropdown_items : i.id = id}

\* The insert without the foreign key on tab_id.
createDropdownItemUnchecked(d, data) ==
  LET id == NextRowid(d, "dropdown_items")
      item == [id |-> id, tabId |-> data.tabId, name |-> data.name,
               displayName |-> data.displayName, order |-> data.order,
               isActive |-> 1] IN
  Returned([d EXCEPT !.dropdown_items = @ \cup {item},
                     !.sqlite_sequence = BumpSequence(d, "dropdown_items", id)],
           item)

createDropdownItem(d, data) ==
  IF getNavigationTabById(d, data.tabId) = {} THEN Threw(d, ErrConstraint)
  ELSE LET id == NextRowid(d, "dropdown_items")
           item == [id |-> id, tabId |-> data.tabId, name |-> data.name,
                    displayName |-> data.displayName, order |-> data.order,
                    isActive |-> 1] IN
       Returned([d EXCEPT !.dropdown_items = @ \cup {item},
                          !.sqlite_sequence = BumpSequence(d, "dropdown_items", id)],
                item)

updateDropdownItem(d, id, data) ==
  LET current == getDropdownItemById(d, id) IN
  IF current = {} \/ DOMAIN data = {} THEN Returned(d, {})
  ELSE LET cur == CHOOSE i \in current : TRUE
           new == Patched(cur, data) IN
       Returned([d EXCEPT !.dropdown_items = (@ \ {cur}) \cup {new}], {new})

\* The dropdown-item cascade deleting only the rows whose subject is the
\* deleted item's name, in place of every row of the table names.
deleteDropdownItemBodyByOwner(d, id, fault) ==
  LET tableConfigs == {c \in d.table_configs : c.dropdownId = id}
      names == {c.tableName : c \in tableConfigs}
      owners == {i.name : i \in {j \in d.dropdown_items : j.id = id}}
      d2 == DeleteFromCurriculumRows(d, {r \in d.curriculum_rows :
                                          r.tableName \in names /\ r.subject \in owners})
      d3 == DeleteFromTableConfigs(d2, {c \in d2.table_configs : c.dropdownId = id})
      d4 == DeleteFromDropdownItems(d3, {i \in d3.dropdown_items : i.id = id})
  IN  CASE fault = 1 -> Threw(d, ErrStorage)
        [] fault = 2 -> Threw(d2, ErrStorage)
        [] fault = 3 -> Threw(d3, ErrStorage)
        [] OTHER -> Returned(d4, [dropdownItemDeleted |-> Cardinality(getDropdownItemById(d3, id)),
                                  tableConfigsDeleted |-> Cardinality(tableConfigs)])

deleteDropdownItemBody(d, id, fault) ==
  LET tableConfigs == {c \in d.table_configs : c.dropdownId = id}
      names == {c.tableName : c \in tableConfigs}
      d2 == DeleteFromCurriculumRows(d, {r \in d.curriculum_rows : r.tableName \in names})
      d3 == DeleteFromTableConfigs(d2, {c \in d2.table_configs : c.dropdownId = id})
      d4 == DeleteFromDropdownItems(d3, {i \in d3.dropdown_items : i.id = id})
  IN  CASE fault = 1 -> Threw(d, ErrStorage)
        [] fault = 2 -> Threw(d2, ErrStorage)
        [] fault = 3 -> Threw(d3, ErrStorage)
        [] OTHER -> Returned(d4, [dropdownItemDeleted |-> Cardinality(getDropdownItemById(d3, id)),
                                  tableConfigsDeleted |-> Cardinality(tableConfigs)])

deleteDropdownItem(d, id, fault) ==
  LET result == transaction(d, deleteDropdownItemBody(d, id, fault)) IN
  IF result.threw THEN result
  ELSE Returned(result.db, result.value.dropdownItemDeleted > 0)

(***************************************************************************)
(* Table configs                                                           *)
(***************************************************************************)
getTableConfigById(d, id) == {c \in d.table_configs : c.id = id}

createTableConfig(d, data) ==
  IF \/ getNavigationTabById(d, data.tabId) = {}
     \/ getDropdownItemById(d, data.dropdownId) = {}
    THEN Threw(d, ErrConstraint)
  ELSE LET id == NextRowid(d, "table_configs")
           config == [id |-> id, tabId |-> data.tabId, dropdownId |-> data.dropdownId,
                      tableName |-> data.tableName, displayName |-> data.displayName,
                      order |-> data.order, isActive |-> 1] IN
       Returned([d EXCEPT !.table_configs = @ \cup {config},
                          !.sqlite_sequence = BumpSequence(d, "table_configs", id)],
                config)

updateTableConfig(d, id, data) ==
  LET current == getTableConfigById(d, id) IN
  IF current = {} \/ DOMAIN data = {} THEN Returned(d, {})
  ELSE LET cur == CHOOSE c \in current : TRUE
           new == Patched(cur, data) IN
       Returned([d EXCEPT !.table_configs = (@ \ {cur}) \cup {new}], {new})

\* The transaction without its DELETE FROM curriculum_rows.
deleteTableConfigBodyKeepingRows(d, id, tableConfig, fault) ==
  LET d2 == DeleteFromTableConfigs(d, {c \in d.table_configs : c.id = id})
  IN  IF fault # 0 THEN Threw(d, ErrStorage)
      ELSE Returned(d2, [curriculumRowsDeleted |-> 0,
                         tableConfigDeleted |-> Cardinality(getTableConfigById(d, id))])

deleteTableConfigBody(d, id, tableConfig, fault) ==
  LET d1 == DeleteFromCurriculumRows(d, {r \in d.curriculum_rows : r.tableName = tableConfig.tableName})
      d2 == DeleteFromTableConfigs(d1, {c \in d1.table_configs : c.id = id})
  IN  CASE fault = 1 -> Threw(d, ErrStorage)
        [] fault = 2 -> Threw(d1, ErrStorage)
        [] OTHER -> Returned(d2, [curriculumRowsDeleted |->
                                    Cardinality(d.curriculum_rows) - Cardinality(d1.curriculum_rows),
                                  tableConfigDeleted |-> Cardinality(getTableConfigById(d1, id))])

deleteTableConfig(d, id, fault) ==
  LET found == getTableConfigById(d, id) IN
  IF found = {} THEN Returned(d, FALSE)
  ELSE LET tableConfig == CHOOSE c \in found : TRUE
           result == transaction(d, deleteTableConfigBody(d, id, tableConfig, fault)) IN
       IF result.threw THEN result
       ELSE Returned(result.db, result.value.tableConfigDeleted > 0)

\* The cleanup without its WHERE clause.
cleanupOrphanedCurriculumRowsUnfiltered(d) ==
  Returned(DeleteFromCurriculumRows(d, d.curriculum_rows), Cardinality(d.curriculum_rows))

\* The cleanup with IN for NOT IN.
cleanupOrphanedCurriculumRowsInverted(d) ==
  LET d1 == DeleteFromCurriculumRows(d, {r \in d.curriculum_rows :
              r.tableName \in {c.tableName : c \in d.table_configs}}) IN
  Returned(d1, Cardinality(d.curriculum_rows) - Cardinality(d1.curriculum_rows))

\* DELETE FROM curriculum_rows WHERE table_name NOT IN (SELECT table_name FROM table_configs)
cleanupOrphanedCurriculumRows(d) ==
  LET d1 == DeleteFromCurriculumRows(d, {r \in d.curriculum_rows :
              r.tableName \notin {c.tableName : c \in d.table_configs}}) IN
  Returned(d1, Cardinality(d.curriculum_rows) - Cardinality(d1.curriculum_rows))


(***************************************************************************)
(* Curriculum rows and standards.  A standard code is the sequence of its  *)
(* comma-free segments: <<"a">> is the code a, <<"a", "b">> the code a,b   *)
(* and <<"">> the empty code.                                              *)
(***************************************************************************)
\* row.materials || '' and the like: an absent or empty optional field.
OrEmpty(row, f) == IF f \in DOMAIN row THEN row[f] ELSE ""

\* standardStmt.run(id, standardCode) for each element, in array order; the
\* first one that breaks the primary key or a foreign key throws and the
\* statements already run stay (no transaction around the loop).
RECURSIVE InsertCurriculumStandards(_, _, _)
InsertCurriculumStandards(d, id, codes) ==
  IF codes = <<>> THEN Returned(d, "none")
  ELSE LET link == [curriculum_id |-> id, standard_code |-> Head(codes)] IN
       IF \/ link \in d.curriculum_standards
          \/ Head(codes) \notin {s.code : s \in d.standards}
          \/ id \notin Ids(d.curriculum_rows)
         THEN Threw(d, ErrConstraint)
       ELSE InsertCurriculumStandards(
              [d EXCEPT !.curriculum_standards = @ \cup {link}], id, Tail(codes))

createCurriculumRow(d, row) ==
  LET newId == NextRowid(d, "curriculum_rows")
      stored == [id |-> newId, grade |-> row.grade, subject |-> row.subject,
                 objectives |-> row.objectives, unitPacing |-> row.unitPacing,
                 assessments |-> row.assessments,
                 materialsAndDifferentiation |-> row.materialsAndDifferentiation,
                 biblical |-> row.biblical,
                 materials |-> OrEmpty(row, "materials"),
                 differentiator |-> OrEmpty(row, "differentiator"),
                 tableName |-> OrEmpty(row, "tableName")]
      d1 == [d EXCEPT !.curriculum_rows = @ \cup {stored},
                      !.sqlite_sequence = BumpSequence(d, "curriculum_rows", newId)]
      linked == InsertCurriculumStandards(d1, newId, row.standards) IN
  IF linked.threw THEN linked ELSE Returned(linked.db, stored)

RowFields ==
  {"grade", "subject", "objectives", "unitPacing", "assessments",
   "materialsAndDifferentiation", "biblical", "materials", "differentiator", "tableName"}

updateCurriculumRow(d, id, row) ==
  LET found == {r \in d.curriculum_rows : r.id = id} IN
  IF found = {} THEN Threw(d, ErrRowNotFound)
  ELSE LET cur == CHOOSE r \in found : TRUE
           new == [f \in DOMAIN cur |->
                     IF f \in RowFields /\ f \in DOMAIN row THEN row[f] ELSE cur[f]]
           d1 == [d EXCEPT !.curriculum_rows = (@ \ {cur}) \cup {new}] IN
       IF "standards" \notin DOMAIN row THEN Returned(d1, new)
       ELSE LET d2 == [d1 EXCEPT !.curriculum_standards = {l \in @ : l.curriculum_id # id}]
                linked == InsertCurriculumStandards(d2, id, row.standards) IN
            IF linked.threw THEN linked ELSE Returned(linked.db, new)

deleteCurriculumRow(d, id) ==
  IF id \notin Ids(d.curriculum_rows) THEN Threw(d, ErrRowNotFound)
  ELSE Returned(DeleteFromCurriculumRows(d, {r \in d.curriculum_rows : r.id = id}), "none")

createStandard(d, standard) ==
  IF standard.code \in {s.code : s \in d.standards} THEN Threw(d, ErrConstraint)
  ELSE LET id == NextRowid(d, "standards")
           stored == [id |-> id, code |-> standard.code,
                      description |-> standard.description, category |-> standard.category] IN
       Returned([d EXCEPT !.standards = @ \cup {stored},
                          !.sqlite_sequence = BumpSequence(d, "standards", id)],
                stored)


(***************************************************************************)
(* Queries behind the export                                               *)
(***************************************************************************)
\* BINARY collation of the strings the model uses.
Collation ==
  <<"", " ", "2025-2026", "2026-2027", "Admin", "Database Export", "G1", "KG", "Math",
    "a", "b", "cat", "t1", "t2", "x">>
Rank(str) == CHOOSE i \in 1..Len(Collation) : Collation[i] = str

RECURSIVE LexLeq(_, _)
LexLeq(a, b) ==
  \/ a = <<>>
  \/ /\ b # <<>>
     /\ \/ Head(a) < Head(b)
        \/ Head(a) = Head(b) /\ LexLeq(Tail(a), Tail(b))

\* ORDER BY over a set of [key, row] pairs.
RECURSIVE OrderBy(_)
OrderBy(pairs) ==
  IF pairs = {} THEN <<>>
  ELSE LET first == CHOOSE p \in pairs : \A q \in pairs : LexLeq(p.key, q.key) IN
       <<first.row>> \o OrderBy(pairs \ {first})

RECURSIVE Flatten(_)
Flatten(codes) == IF codes = <<>> THEN <<>> ELSE Head(codes) \o Flatten(Tail(codes))

\* GROUP_CONCAT(cs.standard_code): the linked codes joined with commas, in an
\* order SQLite does not specify; NULL (here <<>>) when the row has no link.
GroupConcat(d, id) ==
  LET codes == {l.standard_code : l \in {l \in d.curriculum_standards : l.curriculum_id = id}} IN
  Flatten(OrderBy({[key |-> <<Len(c), Rank(c[1]), Rank(c[Len(c)])>>, row |-> c] : c \in codes}))

\* row.standards ? row.standards.split(',') : []
SplitStandards(joined) ==
  IF joined = <<>> \/ joined = <<"">> THEN <<>>
  ELSE [i \in 1..Len(joined) |-> <<joined[i]>>]

getAllCurriculumRows(d) ==
  OrderBy({[key |-> <<Rank(r.grade), Rank(r.subject), r.id>>,
            row |-> [id |-> r.id, grade |-> r.grade, subject |-> r.subject,
                     objectives |-> r.objectives, unitPacing |-> r.unitPacing,
                     assessments |-> r.assessments,
                     materialsAndDifferentiation |-> r.materialsAndDifferentiation,
                     biblical |-> r.biblical,
                     standards |-> SplitStandards(GroupConcat(d, r.id)),
                     materials |-> r.materials, differentiator |-> r.differentiator,
                     tableName |-> r.tableName]] : r \in d.curriculum_rows})

getAllStandards(d) ==
  OrderBy({[key |-> <<Rank(st.category), Len(st.code), Rank(st.code[1]), st.id>>, row |-> st] :
           st \in d.standards})

getAllNavigationTabs(d) ==
  OrderBy({[key |-> <<IF t.name = "Admin" THEN 1 ELSE 0, t.order, t.id>>, row |-> t] :
           t \in d.navigation_tabs})

\* ORDER BY CASE WHEN name = 'Admin' THEN 1 ELSE 0 END, order_index
TabSortKey(t) == <<IF t.name = "Admin" THEN 1 ELSE 0, t.order>>

\* The orderings of a set of tabs that a sort on `key` may return: rows with
\* equal keys come in an order SQLite does not specify.
Orderings(tabs, key) ==
  {v \in [1..Cardinality(tabs) -> tabs] :
     /\ \A i, j \in 1..Cardinality(tabs) : i # j => v[i] # v[j]
     /\ \A i, j \in 1..Cardinality(tabs) : i < j => LexLeq(key[v[i]], key[v[j]])}

\* The query with ORDER BY order_index alone.
getActiveNavigationTabsByOrder(d) ==
  LET active == {t \in d.navigation_tabs : t.isActive = 1} IN
  Orderings(active, [t \in active |-> <<t.order>>])

\* The results the query may return.
getActiveNavigationTabs(d) ==
  LET active == {t \in d.navigation_tabs : t.isActive = 1} IN
  Orderings(active, [t \in active |-> TabSortKey(t)])

getAllDropdownItems(d) ==
  OrderBy({[key |-> <<i.tabId, i.order, i.id>>, row |-> i] : i \in d.dropdown_items})

getAllTableConfigs(d) ==
  OrderBy({[key |-> <<c.tabId, c.dropdownId, c.order, c.id>>, row |-> c] : c \in d.table_configs})

\* SELECT ... FROM school_year ORDER BY id DESC LIMIT 1, inserting the
\* default year when the table is empty.
getSchoolYear(d) ==
  IF d.school_year = {}
    THEN LET id == NextRowid(d, "school_year")
             row == [id |-> id, year |-> "2025-2026"] IN
         Returned([d EXCEPT !.school_year = {row},
                            !.sqlite_sequence = BumpSequence(d, "school_year", id)], row)
    ELSE Returned(d, CHOOSE y \in d.school_year : \A z \in d.school_year : z.id <= y.id)

\* The update without its DELETE FROM school_year.
updateSchoolYearAppending(d, year) ==
  LET id == NextRowid(d, "school_year")
      row == [id |-> id, year |-> year] IN
  Returned([d EXCEPT !.school_year = @ \cup {row},
                     !.sqlite_sequence = BumpSequence(d, "school_year", id)], row)

\* DELETE FROM school_year, then INSERT INTO school_year (year).
updateSchoolYear(d, year) ==
  LET id == NextRowid(d, "school_year")
      row == [id |-> id, year |-> year] IN
  Returned([d EXCEPT !.school_year = {row},
                     !.sqlite_sequence = BumpSequence(d, "school_year", id)], row)

\* GET /api/export/full-database: the response body and the database the
\* handler leaves.
ExportFullDatabase(d) ==
  LET allRows == getAllCurriculumRows(d)
      stds == getAllStandards(d)
      navigationTabs == getAllNavigationTabs(d)
      dropdownItems == getAllDropdownItems(d)
      tableConfigs == getAllTableConfigs(d)
      schoolYear == getSchoolYear(d) IN
  Returned(schoolYear.db,
    [curriculumRows |-> allRows,
     standards |-> stds,
     navigationTabs |-> navigationTabs,
     dropdownItems |-> dropdownItems,
     tableConfigs |-> tableConfigs,
     schoolYear |-> schoolYear.value,
     metadata |-> [totalCurriculumEntries |-> Len(allRows),
                   totalStandards |-> Len(stds),
                   totalNavigationTabs |-> Len(navigationTabs),
                   totalDropdownItems |-> Len(dropdownItems),
                   totalTableConfigs |-> Len(tableConfigs)]])


(***************************************************************************)
(* validateImportDataServer                                                *)
(***************************************************************************)
\* str.trim() over the strings of the model.
Trim(str) == IF str = " " THEN "" ELSE str

\* code.trim() === '' for a code given by its segments.
BlankCode(code) == Len(code) = 1 /\ Trim(code[1]) = ""

Invalid(e) == [isValid |-> FALSE, error |-> e, gradeCount |-> 0, subjectCount |-> 0]

requiredCurriculumFields ==
  <<"id", "grade", "subject", "objectives", "unitPacing", "assessments",
    "materialsAndDifferentiation", "biblical", "standards">>

requiredStandardFields == <<"id", "code", "description", "category">>

\* The first required field the object lacks, 0 when it has them all.
FirstMissing(obj, required) ==
  LET missing == {k \in 1..Len(required) : required[k] \notin DOMAIN obj} IN
  IF missing = {} THEN 0 ELSE CHOOSE k \in missing : \A j \in missing : k <= j

\* The error of one curriculum row, <<>> when it passes every test.
CurriculumRowError(rows, i) ==
  LET row == rows[i]
      k == FirstMissing(row, requiredCurriculumFields) IN
  IF k # 0 THEN <<"Curriculum row missing required field", i, requiredCurriculumFields[k]>>
  ELSE IF row.id <= 0 THEN <<"Curriculum row has invalid ID", i>>
  ELSE IF \E j \in 1..(i - 1) : "id" \in DOMAIN rows[j] /\ rows[j].id = row.id THEN <<"Duplicate curriculum row ID", row.id>>
  ELSE IF Trim(row.grade) = "" THEN <<"Curriculum row has invalid grade", i>>
  ELSE IF Trim(row.subject) = "" THEN <<"Curriculum row has invalid subject", i>>
  ELSE <<>>

StandardError(stds, i) ==
  LET standard == stds[i]
      k == FirstMissing(standard, requiredStandardFields) IN
  IF k # 0 THEN <<"Standard missing required field", i, requiredStandardFields[k]>>
  ELSE IF standard.id <= 0 THEN <<"Standard has invalid ID", i>>
  ELSE IF \E j \in 1..(i - 1) : "id" \in DOMAIN stds[j] /\ stds[j].id = standard.id THEN <<"Duplicate standard ID", standard.id>>
  ELSE IF BlankCode(standard.code) THEN <<"Standard has invalid code", i>>
  ELSE IF Trim(standard.category) = "" THEN <<"Standard has invalid category", i>>
  ELSE <<>>

\* The loop stops at the first element with an error; 0 when none has one.
FirstBad(bad) ==
  IF bad = {} THEN 0 ELSE CHOOSE i \in bad : \A j \in bad : i <= j

\* metadata.total...: undefined (here -1) when the field is absent.
Count(metadata, f) == IF f \in DOMAIN metadata THEN metadata[f] ELSE -1

MaxImportRows == 10000
MaxImportStandards == 1000

\* The validation with the metadata counts compared before the loops.
validateImportDataServerCountsFirst(body) ==
  IF "curriculumRows" \notin DOMAIN body THEN Invalid(<<"curriculumRows must be an array">>)
  ELSE IF "standards" \notin DOMAIN body THEN Invalid(<<"standards must be an array">>)
  ELSE IF "metadata" \notin DOMAIN body THEN Invalid(<<"metadata must be an object">>)
  ELSE
    LET rows == body.curriculumRows
        stds == body.standards
        metadata == body.metadata
        badRow == FirstBad({i \in 1..Len(rows) : CurriculumRowError(rows, i) # <<>>})
        badStandard == FirstBad({i \in 1..Len(stds) : StandardError(stds, i) # <<>>}) IN
    IF Len(rows) > MaxImportRows THEN Invalid(<<"Too many curriculum rows (max 10,000)">>)
    ELSE IF Len(stds) > MaxImportStandards THEN Invalid(<<"Too many standards (max 1,000)">>)
    ELSE IF Count(metadata, "totalCurriculumEntries") # Len(rows)
      THEN Invalid(<<"Metadata totalCurriculumEntries doesn't match actual curriculum rows count">>)
    ELSE IF Count(metadata, "totalStandards") # Len(stds)
      THEN Invalid(<<"Metadata totalStandards doesn't match actual standards count">>)
    ELSE IF badRow # 0 THEN Invalid(CurriculumRowError(rows, badRow))
    ELSE IF badStandard # 0 THEN Invalid(StandardError(stds, badStandard))
    ELSE [isValid |-> TRUE, error |-> <<>>,
          gradeCount |-> Cardinality({rows[i].grade : i \in 1..Len(rows)}),
          subjectCount |-> Cardinality({rows[i].subject : i \in 1..Len(rows)})]

validateImportDataServer(body) ==
  IF "curriculumRows" \notin DOMAIN body THEN Invalid(<<"curriculumRows must be an array">>)
  ELSE IF "standards" \notin DOMAIN body THEN Invalid(<<"standards must be an array">>)
  ELSE IF "metadata" \notin DOMAIN body THEN Invalid(<<"metadata must be an object">>)
  ELSE
    LET rows == body.curriculumRows
        stds == body.standards
        metadata == body.metadata
        badRow == FirstBad({i \in 1..Len(rows) : CurriculumRowError(rows, i) # <<>>})
        badStandard == FirstBad({i \in 1..Len(stds) : StandardError(stds, i) # <<>>}) IN
    IF Len(rows) > MaxImportRows THEN Invalid(<<"Too many curriculum rows (max 10,000)">>)
    ELSE IF Len(stds) > MaxImportStandards THEN Invalid(<<"Too many standards (max 1,000)">>)
    ELSE IF badRow # 0 THEN Invalid(CurriculumRowError(rows, badRow))
    ELSE IF badStandard # 0 THEN Invalid(StandardError(stds, badStandard))
    ELSE IF Count(metadata, "totalCurriculumEntries") # Len(rows)
      THEN Invalid(<<"Metadata totalCurriculumEntries doesn't match actual curriculum rows count">>)
    ELSE IF Count(metadata, "totalStandards") # Len(stds)
      THEN Invalid(<<"Metadata totalStandards doesn't match actual standards count">>)
    ELSE [isValid |-> TRUE, error |-> <<>>,
          gradeCount |-> Cardinality({rows[i].grade : i \in 1..Len(rows)}),
          subjectCount |-> Cardinality({rows[i].subject : i \in 1..Len(rows)})]


(***************************************************************************)
(* validateImportData, the validation the client runs on a chosen file     *)
(***************************************************************************)
\* The error of one curriculum row in the client's loop, which compares no
\* ids, <<>> when the row passes every test.
ImportRowError(rows, i) ==
  LET row == rows[i]
      k == FirstMissing(row, requiredCurriculumFields) IN
  IF k # 0 THEN <<"Curriculum row missing required field", i, requiredCurriculumFields[k]>>
  ELSE IF row.id <= 0 THEN <<"Curriculum row has invalid ID", i>>
  ELSE IF Trim(row.grade) = "" THEN <<"Curriculum row has invalid grade", i>>
  ELSE IF Trim(row.subject) = "" THEN <<"Curriculum row has invalid subject", i>>
  ELSE <<>>

ImportStandardError(stds, i) ==
  LET standard == stds[i]
      k == FirstMissing(standard, requiredStandardFields) IN
  IF k # 0 THEN <<"Standard missing required field", i, requiredStandardFields[k]>>
  ELSE IF standard.id <= 0 THEN <<"Standard has invalid ID", i>>
  ELSE IF BlankCode(standard.code) THEN <<"Standard has invalid code", i>>
  ELSE IF Trim(standard.category) = "" THEN <<"Standard has invalid category", i>>
  ELSE <<>>

\* metadata.total... !== undefined && data.array && total !== array.length
OptionalCountMismatch(data, total, array) ==
  /\ total \in DOMAIN data.metadata
  /\ array \in DOMAIN data
  /\ data.metadata[total] # Len(data[array])

\* The arrays and objects of the model's files have the right types, so the
\* typeof and Array.isArray tests of the optional parts never fail here.
validateImportData(data) ==
  IF "curriculumRows" \notin DOMAIN data THEN Invalid(<<"Missing or invalid curriculumRows array">>)
  ELSE IF "standards" \notin DOMAIN data THEN Invalid(<<"Missing or invalid standards array">>)
  ELSE IF "metadata" \notin DOMAIN data THEN Invalid(<<"Missing or invalid metadata object">>)
  ELSE
    LET rows == data.curriculumRows
        stds == data.standards
        metadata == data.metadata
        badRow == FirstBad({i \in 1..Len(rows) : ImportRowError(rows, i) # <<>>})
        badStandard == FirstBad({i \in 1..Len(stds) : ImportStandardError(stds, i) # <<>>}) IN
    IF badRow # 0 THEN Invalid(ImportRowError(rows, badRow))
    ELSE IF badStandard # 0 THEN Invalid(ImportStandardError(stds, badStandard))
    ELSE IF Cardinality({rows[i].id : i \in 1..Len(rows)}) # Len(rows)
      THEN Invalid(<<"Duplicate curriculum row IDs found">>)
    ELSE IF Cardinality({stds[i].id : i \in 1..Len(stds)}) # Len(stds)
      THEN Invalid(<<"Duplicate standard IDs found">>)
    ELSE IF Count(metadata, "totalCurriculumEntries") \in {-1, 0}
      THEN Invalid(<<"Invalid metadata: totalCurriculumEntries must be a number">>)
    ELSE IF Count(metadata, "totalStandards") \in {-1, 0}
      THEN Invalid(<<"Invalid metadata: totalStandards must be a number">>)
    ELSE IF metadata.totalCurriculumEntries # Len(rows)
      THEN Invalid(<<"Metadata totalCurriculumEntries doesn't match actual curriculum rows count">>)
    ELSE IF metadata.totalStandards # Len(stds)
      THEN Invalid(<<"Metadata totalStandards doesn't match actual standards count">>)
    ELSE IF OptionalCountMismatch(data, "totalNavigationTabs", "navigationTabs")
      THEN Invalid(<<"Metadata totalNavigationTabs doesn't match actual navigation tabs count">>)
    ELSE IF OptionalCountMismatch(data, "totalDropdownItems", "dropdownItems")
      THEN Invalid(<<"Metadata totalDropdownItems doesn't match actual dropdown items count">>)
    ELSE IF OptionalCountMismatch(data, "totalTableConfigs", "tableConfigs")
      THEN Invalid(<<"Metadata totalTableConfigs doesn't match actual table configs count">>)
    ELSE [isValid |-> TRUE, error |-> <<>>,
          gradeCount |-> Cardinality({rows[i].grade : i \in 1..Len(rows)}),
          subjectCount |-> Cardinality({rows[i].subject : i \in 1..Len(rows)})]


(***************************************************************************)
(* importFullDatabase                                                      *)
(***************************************************************************)
\* Each step of the import takes the outcome of the steps before it and
\* passes a failure on.
RECURSIVE InsertNavigationTabs(_, _)
InsertNavigationTabs(r, tabs) ==
  IF r.threw \/ tabs = <<>> THEN r
  ELSE LET tab == Head(tabs) IN
       IF \E t \in r.db.navigation_tabs : t.id = tab.id \/ t.name = tab.name
         THEN Threw(r.db, ErrConstraint)
       ELSE InsertNavigationTabs(
              Returned([r.db EXCEPT
                          !.navigation_tabs = @ \cup
                            {[id |-> tab.id, name |-> tab.name, displayName |-> tab.displayName,
                              order |-> tab.order, isActive |-> tab.isActive]},
                          !.sqlite_sequence = BumpSequence(r.db, "navigation_tabs", tab.id)],
                       "none"),
              Tail(tabs))

RECURSIVE InsertDropdownItems(_, _)
InsertDropdownItems(r, items) ==
  IF r.threw \/ items = <<>> THEN r
  ELSE LET item == Head(items) IN
       IF \/ item.id \in Ids(r.db.dropdown_items)
          \/ item.tabId \notin Ids(r.db.navigation_tabs)
         THEN Threw(r.db, ErrConstraint)
       ELSE InsertDropdownItems(
              Returned([r.db EXCEPT
                          !.dropdown_items = @ \cup
                            {[id |-> item.id, tabId |-> item.tabId, name |-> item.name,
                              displayName |-> item.displayName, order |-> item.order,
                              isActive |-> item.isActive]},
                          !.sqlite_sequence = BumpSequence(r.db, "dropdown_items", item.id)],
                       "none"),
              Tail(items))

RECURSIVE InsertTableConfigs(_, _)
InsertTableConfigs(r, configs) ==
  IF r.threw \/ configs = <<>> THEN r
  ELSE LET config == Head(configs) IN
       IF \/ config.id \in Ids(r.db.table_configs)
          \/ config.tabId \notin Ids(r.db.navigation_tabs)
          \/ config.dropdownId \notin Ids(r.db.dropdown_items)
         THEN Threw(r.db, ErrConstraint)
       ELSE InsertTableConfigs(
              Returned([r.db EXCEPT
                          !.table_configs = @ \cup
                            {[id |-> config.id, tabId |-> config.tabId,
                              dropdownId |-> config.dropdownId, tableName |-> config.tableName,
                              displayName |-> config.displayName, order |-> config.order,
                              isActive |-> config.isActive]},
                          !.sqlite_sequence = BumpSequence(r.db, "table_configs", config.id)],
                       "none"),
              Tail(configs))

\* if (data.schoolYear) { DELETE FROM school_year; INSERT ... }
ReplaceSchoolYear(r, data) ==
  IF r.threw \/ "schoolYear" \notin DOMAIN data THEN r
  ELSE IF FirstMissing(data.schoolYear, <<"id", "year">>) # 0
    THEN Threw([r.db EXCEPT !.school_year = {}], ErrBind)
  ELSE Returned([r.db EXCEPT
                   !.school_year = {[id |-> data.schoolYear.id, year |-> data.schoolYear.year]},
                   !.sqlite_sequence = BumpSequence(r.db, "school_year", data.schoolYear.id)],
                "none")

\* A field the file's object lacks is bound as undefined, which the driver
\* refuses.
RECURSIVE InsertStandards(_, _)
InsertStandards(r, stds) ==
  IF r.threw \/ stds = <<>> THEN r
  ELSE LET standard == Head(stds) IN
       IF FirstMissing(standard, requiredStandardFields) # 0 THEN Threw(r.db, ErrBind)
       ELSE IF \E st \in r.db.standards : st.id = standard.id \/ st.code = standard.code
         THEN Threw(r.db, ErrConstraint)
       ELSE InsertStandards(
              Returned([r.db EXCEPT
                          !.standards = @ \cup
                            {[id |-> standard.id, code |-> standard.code,
                              description |-> standard.description,
                              category |-> standard.category]},
                          !.sqlite_sequence = BumpSequence(r.db, "standards", standard.id)],
                       "none"),
              Tail(stds))

RECURSIVE InsertCurriculumRows(_, _)
InsertCurriculumRows(r, rows) ==
  IF r.threw \/ rows = <<>> THEN r
  ELSE LET row == Head(rows) IN
       IF FirstMissing(row, requiredCurriculumFields) # 0 THEN Threw(r.db, ErrBind)
       ELSE IF row.id \in Ids(r.db.curriculum_rows) THEN Threw(r.db, ErrConstraint)
       ELSE InsertCurriculumRows(
              Returned([r.db EXCEPT
                          !.curriculum_rows = @ \cup
                            {[id |-> row.id, grade |-> row.grade, subject |-> row.subject,
                              objectives |-> row.objectives, unitPacing |-> row.unitPacing,
                              assessments |-> row.assessments,
                              materialsAndDifferentiation |-> row.materialsAndDifferentiation,
                              biblical |-> row.biblical,
                              materials |-> OrEmpty(row, "materials"),
                              differentiator |-> OrEmpty(row, "differentiator"),
                              tableName |-> OrEmpty(row, "tableName")]},
                          !.sqlite_sequence = BumpSequence(r.db, "curriculum_rows", row.id)],
                       "none"),
              Tail(rows))

RECURSIVE InsertRelationships(_, _)
InsertRelationships(r, rows) ==
  IF r.threw \/ rows = <<>> THEN r
  ELSE InsertRelationships(
         InsertCurriculumStandards(r.db, Head(rows).id, Head(rows).standards), Tail(rows))

\* data.navigationTabs && data.navigationTabs.length > 0 ? the array : nothing
Supplied(data, f) == IF f \in DOMAIN data THEN data[f] ELSE <<>>

\* The clearing with the navigation tables deleted whatever the file has.
ClearExistingDataAlways(d, data) ==
  [d EXCEPT !.curriculum_standards = {}, !.curriculum_rows = {}, !.standards = {},
            !.table_configs = {}, !.dropdown_items = {}, !.navigation_tabs = {}]

\* DELETE FROM curriculum_standards, curriculum_rows, standards, and, when
\* the file has a navigation array, table_configs, dropdown_items,
\* navigation_tabs.
ClearExistingData(d, data) ==
  IF \/ "navigationTabs" \in DOMAIN data
     \/ "dropdownItems" \in DOMAIN data
     \/ "tableConfigs" \in DOMAIN data
    THEN [d EXCEPT !.curriculum_standards = {}, !.curriculum_rows = {}, !.standards = {},
                   !.table_configs = {}, !.dropdown_items = {}, !.navigation_tabs = {}]
    ELSE [d EXCEPT !.curriculum_standards = {}, !.curriculum_rows = {}, !.standards = {}]

importFullDatabaseBody(d, data) ==
  InsertRelationships(
    InsertCurriculumRows(
      InsertStandards(
        ReplaceSchoolYear(
          InsertTableConfigs(
            InsertDropdownItems(
              InsertNavigationTabs(Returned(ClearExistingData(d, data), "none"),
                                   Supplied(data, "navigationTabs")),
              Supplied(data, "dropdownItems")),
            Supplied(data, "tableConfigs")),
          data),
        data.standards),
      data.curriculumRows),
    data.curriculumRows)

\* The import run outside a transaction.
importFullDatabaseUnwrapped(d, data) == importFullDatabaseBody(d, data)

importFullDatabase(d, data) == transaction(d, importFullDatabaseBody(d, data))


(***************************************************************************)
(* Request schemas (zod)                                                   *)
(***************************************************************************)
createNavigationTabSchema(body) ==
  body.name # "" /\ body.displayName # "" /\ body.order >= 0

\* updateNavigationTabSchema, updateDropdownItemSchema, updateTableConfigSchema
updateSchema(body) ==
  /\ "name" \in DOMAIN body => body.name # ""
  /\ "tableName" \in DOMAIN body => body.tableName # ""
  /\ "displayName" \in DOMAIN body => body.displayName # ""
  /\ "order" \in DOMAIN body => body.order >= 0

createDropdownItemSchema(body) ==
  body.tabId > 0 /\ body.name # "" /\ body.displayName # "" /\ body.order >= 0

createTableConfigSchema(body) ==
  /\ body.tabId > 0 /\ body.dropdownId > 0
  /\ body.tableName # "" /\ body.displayName # "" /\ body.order >= 0

(***************************************************************************)
(* Request inputs                                                          *)
(***************************************************************************)
NoFields == [f \in {} |-> f]

TabBodies ==
  { [name |-> "G1", displayName |-> "G1", order |-> 1],
    [name |-> "G1", displayName |-> "G1", order |-> 100],
    [name |-> "Admin", displayName |-> "Admin", order |-> 0] }

TabPatches ==
  { NoFields,
    [name |-> "G1"],
    [name |-> ""],
    [isActive |-> FALSE],
    [order |-> 100, displayName |-> "x"] }

\* Patches that move a tab to an order another tab may have.
OrderPatches == TabPatches \cup { [order |-> 0], [order |-> 1] }

TabIds == 1..MaxTabId
DropdownIds == 1..MaxDropdownId
ConfigIds == 1..MaxConfigId
RowIds == 1..MaxRowId

DropdownBodies ==
  { [tabId |-> t, name |-> "Math", displayName |-> "Math", order |-> 0] : t \in TabIds }

DropdownPatches == { NoFields, [name |-> "x"] }

TableNames == {"t1"}

ConfigBodies ==
  { [tabId |-> t, dropdownId |-> i, tableName |-> n, displayName |-> n, order |-> 0] :
      t \in TabIds, i \in DropdownIds, n \in TableNames }

ConfigPatches == { NoFields, [tableName |-> "t2"] }

\* The write statement of a cascade that a storage failure hits (0: none).
TabFaults == 0..4
DropdownFaults == 0..3
ConfigFaults == 0..2
SeedFaults == 0..1

(***************************************************************************)
(* HTTP handlers                                                           *)
(***************************************************************************)
Respond(op, arg, status, r) ==
  last' = [op |-> op, arg |-> arg, status |-> status, error |-> r.error]

Unchanged ==
  UNCHANGED <<navigation_tabs, dropdown_items, table_configs, curriculum_rows,
              standards, curriculum_standards, school_year, sqlite_sequence, suspended>>

PostNavigationTabs(body) ==
  /\ sqlite_sequence.navigation_tabs < MaxTabId
  /\ IF ~createNavigationTabSchema(body)
       THEN Unchanged
            /\ Respond("POST /api/navigation-tabs", body, 400, Threw(DB, "Invalid data"))
       ELSE LET r == createNavigationTab(DB, body) IN
            /\ Commit(r.db)
            /\ Respond("POST /api/navigation-tabs", body, IF r.threw THEN 500 ELSE 201, r)

PatchNavigationTabs(id, body) ==
  IF ~updateSchema(body)
    THEN Unchanged
         /\ Respond("PATCH /api/navigation-tabs/:id", <<id, body>>, 400, Threw(DB, "Invalid data"))
    ELSE LET r == updateNavigationTab(DB, id, body) IN
         /\ Commit(r.db)
         /\ Respond("PATCH /api/navigation-tabs/:id", <<id, body>>,
                    IF r.threw THEN 500 ELSE IF r.value = {} THEN 404 ELSE 200, r)

DeleteNavigationTabs(id, fault) ==
  LET r == deleteNavigationTab(DB, id, fault) IN
  /\ Commit(r.db)
  /\ Respond("DELETE /api/navigation-tabs/:id", <<id, fault>>,
             IF r.threw THEN 500 ELSE IF r.value THEN 204 ELSE 404, r)


PostDropdownItems(body) ==
  /\ sqlite_sequence.dropdown_items < MaxDropdownId
  /\ IF ~createDropdownItemSchema(body)
       THEN Unchanged /\ Respond("POST /api/dropdown-items", body, 400, Threw(DB, "Invalid data"))
       ELSE LET r == createDropdownItem(DB, body) IN
            /\ Commit(r.db)
            /\ Respond("POST /api/dropdown-items", body, IF r.threw THEN 500 ELSE 201, r)

PatchDropdownItems(id, body) ==
  IF ~updateSchema(body)
    THEN Unchanged
         /\ Respond("PATCH /api/dropdown-items/:id", <<id, body>>, 400, Threw(DB, "Invalid data"))
    ELSE LET r == updateDropdownItem(DB, id, body) IN
         /\ Commit(r.db)
         /\ Respond("PATCH /api/dropdown-items/:id", <<id, body>>,
                    IF r.threw THEN 500 ELSE IF r.value = {} THEN 404 ELSE 200, r)

DeleteDropdownItems(id, fault) ==
  LET r == deleteDropdownItem(DB, id, fault) IN
  /\ Commit(r.db)
  /\ Respond("DELETE /api/dropdown-items/:id", <<id, fault>>,
             IF r.threw THEN 500 ELSE IF r.value THEN 204 ELSE 404, r)

\* The sample row of a new table config.
sampleCurriculumRow(tab, dropdown, validatedData) ==
  [grade |-> tab.name, subject |-> dropdown.name, tableName |-> validatedData.tableName,
   objectives |-> "", unitPacing |-> "", assessments |-> "",
   materialsAndDifferentiation |-> "", biblical |-> "", standards |-> <<>>]

\* storage.createCurriculumRow(sampleCurriculumRow) as the handler calls it;
\* fault = 1 makes its INSERT raise.
createSampleRow(d, row, fault) ==
  IF fault = 1 THEN Threw(d, ErrStorage) ELSE createCurriculumRow(d, row)

\* The handler without the seeding step.
postTableConfigUnseeded(d, body, fault) == createTableConfig(d, body)

\* The handler with the failure of the sample row left to the outer catch.
postTableConfigUncaught(d, body, fault) ==
  LET created == createTableConfig(d, body) IN
  IF created.threw THEN created
  ELSE LET dropdown == {i \in created.db.dropdown_items : i.id = body.dropdownId}
           tab == {t \in created.db.navigation_tabs : t.id = body.tabId} IN
       IF dropdown = {} \/ tab = {} THEN created
       ELSE LET sample == createSampleRow(
                            created.db,
                            sampleCurriculumRow(CHOOSE t \in tab : TRUE,
                                                CHOOSE i \in dropdown : TRUE, body),
                            fault) IN
            IF sample.threw THEN sample ELSE Returned(sample.db, created.value)

\* POST /api/table-configs: the config, then the sample row when the
\* dropdown item and the tab are found; a failure of the sample row is
\* swallowed.
postTableConfig(d, body, fault) ==
  LET created == createTableConfig(d, body) IN
  IF created.threw THEN created
  ELSE LET dropdown == {i \in created.db.dropdown_items : i.id = body.dropdownId}
           tab == {t \in created.db.navigation_tabs : t.id = body.tabId} IN
       IF dropdown = {} \/ tab = {} THEN created
       ELSE LET sample == createSampleRow(
                            created.db,
                            sampleCurriculumRow(CHOOSE t \in tab : TRUE,
                                                CHOOSE i \in dropdown : TRUE, body),
                            fault) IN
            Returned(sample.db, created.value)

PostTableConfigs(body, fault) ==
  /\ sqlite_sequence.table_configs < MaxConfigId
  /\ sqlite_sequence.curriculum_rows < MaxRowId
  /\ IF ~createTableConfigSchema(body)
       THEN Unchanged
            /\ Respond("POST /api/table-configs", <<body, fault>>, 400, Threw(DB, "Invalid data"))
       ELSE LET r == postTableConfig(DB, body, fault) IN
            /\ Commit(r.db)
            /\ Respond("POST /api/table-configs", <<body, fault>>,
                       IF r.threw THEN 500 ELSE 201, r)

\* The part of the handler after createTableConfig: the lookups of the
\* dropdown item and the tab, and the sample row, whose failure is swallowed.
seedTableConfig(d, body, fault) ==
  LET dropdown == {i \in d.dropdown_items : i.id = body.dropdownId}
      tab == {t \in d.navigation_tabs : t.id = body.tabId} IN
  IF dropdown = {} \/ tab = {} THEN Returned(d, "none")
  ELSE Returned(createSampleRow(d,
                                sampleCurriculumRow(CHOOSE t \in tab : TRUE,
                                                    CHOOSE i \in dropdown : TRUE, body),
                                fault).db,
                "none")

\* POST /api/table-configs as the event loop runs it: the handler is
\* suspended at "await storage.createTableConfig(...)" with the INSERT
\* committed, and other handlers may run before it resumes.
PostTableConfigsCreate(body, fault) ==
  /\ sqlite_sequence.table_configs < MaxConfigId
  /\ sqlite_sequence.curriculum_rows < MaxRowId
  /\ IF ~createTableConfigSchema(body)
       THEN Unchanged
            /\ Respond("POST /api/table-configs", <<body, fault>>, 400, Threw(DB, "Invalid data"))
       ELSE LET created == createTableConfig(DB, body) IN
            IF created.threw
              THEN Commit(created.db)
                   /\ Respond("POST /api/table-configs", <<body, fault>>, 500, created)
              ELSE /\ Write(created.db)
                   /\ suspended' = suspended \cup
                        {[body |-> body, fault |-> fault, config |-> created.value]}
                   /\ UNCHANGED last

\* The suspended handler resumes: the lookups, the sample row, the response
\* (the awaits between them are taken in one step).
PostTableConfigsSeed(request) ==
  /\ request \in suspended
  /\ LET r == seedTableConfig(DB, request.body, request.fault) IN
     /\ Write(r.db)
     /\ suspended' = suspended \ {request}
     /\ Respond("POST /api/table-configs", <<request.body, request.fault>>, 201, r)

PatchTableConfigs(id, body) ==
  IF ~updateSchema(body)
    THEN Unchanged
         /\ Respond("PATCH /api/table-configs/:id", <<id, body>>, 400, Threw(DB, "Invalid data"))
    ELSE LET r == updateTableConfig(DB, id, body) IN
         /\ Commit(r.db)
         /\ Respond("PATCH /api/table-configs/:id", <<id, body>>,
                    IF r.threw THEN 500 ELSE IF r.value = {} THEN 404 ELSE 200, r)

DeleteTableConfigs(id, fault) ==
  LET r == deleteTableConfig(DB, id, fault) IN
  /\ Commit(r.db)
  /\ Respond("DELETE /api/table-configs/:id", <<id, fault>>,
             IF r.threw THEN 500 ELSE IF r.value THEN 204 ELSE 404, r)

PostCleanupOrphanedData ==
  LET r == cleanupOrphanedCurriculumRows(DB) IN
  /\ Commit(r.db)
  /\ last' = [op |-> "POST /api/cleanup-orphaned-data", arg |-> "none", status |-> 200,
              error |-> "", deletedCount |-> r.value,
              \* what the request right before this one deleted, when it was
              \* a cleanup too (-1 otherwise)
              previous |-> IF last.op = "POST /api/cleanup-orphaned-data"
                             THEN last.deletedCount ELSE -1]


PostCurriculum(body) ==
  /\ sqlite_sequence.curriculum_rows < MaxRowId
  /\ LET r == createCurriculumRow(DB, body) IN
     /\ Commit(r.db)
     /\ Respond("POST /api/curriculum", body, IF r.threw THEN 500 ELSE 201, r)

PatchCurriculum(id, body) ==
  LET r == updateCurriculumRow(DB, id, body) IN
  /\ Commit(r.db)
  /\ Respond("PATCH /api/curriculum/:id", <<id, body>>, IF r.threw THEN 404 ELSE 200, r)

DeleteCurriculum(id) ==
  LET r == deleteCurriculumRow(DB, id) IN
  /\ Commit(r.db)
  /\ Respond("DELETE /api/curriculum/:id", id, IF r.threw THEN 404 ELSE 204, r)

PostStandards(body) ==
  /\ sqlite_sequence.standards < MaxStandardId
  /\ LET r == createStandard(DB, body) IN
     /\ Commit(r.db)
     /\ Respond("POST /api/standards", body, IF r.threw THEN 500 ELSE 201, r)

GetActiveNavigationTabs ==
  \E tabs \in getActiveNavigationTabs(DB) :
    /\ Unchanged
    /\ last' = [op |-> "GET /api/navigation-tabs/active", arg |-> "none", status |-> 200,
                error |-> "", value |-> tabs]

GetSchoolYear ==
  LET r == getSchoolYear(DB) IN
  /\ Commit(r.db)
  /\ Respond("GET /api/school-year", "none", 200, r)

PatchSchoolYear(year) ==
  /\ sqlite_sequence.school_year < MaxSchoolYearId
  /\ IF year = ""
       THEN Unchanged /\ Respond("PATCH /api/school-year", year, 400, Threw(DB, "Invalid data"))
       ELSE LET r == updateSchoolYear(DB, year) IN
            /\ Commit(r.db)
            /\ Respond("PATCH /api/school-year", year, 200, r)

GetExportFullDatabase ==
  LET r == ExportFullDatabase(DB) IN
  /\ Commit(r.db)
  /\ Respond("GET /api/export/full-database", "none", 200, r)

\* POST /api/import/full-database: 400 when the validation fails, otherwise
\* the import, 500 when it throws.
\* The handler with the validation result reported after the import has run.
postImportFullDatabaseLate(d, body) ==
  LET validationResult == validateImportDataServer(body)
      imported == importFullDatabase(d, body) IN
  IF imported.threw THEN imported
  ELSE IF ~validationResult.isValid THEN Threw(imported.db, "Import validation failed")
  ELSE imported

postImportFullDatabase(d, body) ==
  LET validationResult == validateImportDataServer(body) IN
  IF ~validationResult.isValid THEN Threw(d, "Import validation failed")
  ELSE importFullDatabase(d, body)

\* validateImportDataServer(curriculumRows, standards, metadata) on its own:
\* the result with the one error message the 400 response carries.
ValidateImportDataServer(body) ==
  LET validationResult == validateImportDataServer(body) IN
  /\ Unchanged
  /\ last' = [op |-> "validateImportDataServer", arg |-> body,
              status |-> IF validationResult.isValid THEN 200 ELSE 400,
              error |-> validationResult.error]

\* validateImportData(data) as the file upload of the client runs it.
ValidateImportData(data) ==
  LET validation == validateImportData(data) IN
  /\ Unchanged
  /\ last' = [op |-> "validateImportData", arg |-> data,
              status |-> IF validation.isValid THEN 200 ELSE 400,
              error |-> validation.error]

PostImportFullDatabase(body, kind) ==
  LET r == postImportFullDatabase(DB, body) IN
  /\ Commit(r.db)
  /\ Respond("POST /api/import/full-database", kind,
             IF r.error = "Import validation failed" THEN 400
             ELSE IF r.threw THEN 500 ELSE 200, r)


(***************************************************************************)
(* Request bodies for curriculum rows and standards, and import files      *)
(***************************************************************************)
RowBody(grade, tableName, codes) ==
  [grade |-> grade, subject |-> "Math", objectives |-> "", unitPacing |-> "",
   assessments |-> "", materialsAndDifferentiation |-> "", biblical |-> "",
   standards |-> codes, tableName |-> tableName]

\* Rows as the admin pages post them: with or without a table name.
RowBodies == { RowBody("KG", n, <<>>) : n \in {"", "t1"} }

FileRow(id, grade, codes) ==
  [id |-> id, grade |-> grade, subject |-> "Math", objectives |-> "", unitPacing |-> "",
   assessments |-> "", materialsAndDifferentiation |-> "", biblical |-> "",
   standards |-> codes, materials |-> "", differentiator |-> "", tableName |-> ""]

FileStandard(id, code) ==
  [id |-> id, code |-> code, description |-> "", category |-> "cat"]

FileTab(id, name, order) ==
  [id |-> id, name |-> name, displayName |-> name, order |-> order, isActive |-> 1]

FileMetadata(rows, stds, off) ==
  [totalCurriculumEntries |-> Len(rows) + off, totalStandards |-> Len(stds)]

\* Import files that carry navigation arrays: without the Admin tab, and
\* with an Admin tab that has other field values.
NavFiles ==
  { [curriculumRows |-> <<>>, standards |-> <<>>,
     navigationTabs |-> tabs, dropdownItems |-> <<>>, tableConfigs |-> <<>>,
     metadata |-> FileMetadata(<<>>, <<>>, 0)] :
      tabs \in { <<FileTab(1, "KG", 0)>>,
                 <<FileTab(1, "KG", 0), FileTab(2, "Admin", 0)>> } }
  \cup
  { [curriculumRows |-> <<FileRow(1, "KG", <<>>)>>, standards |-> <<>>,
     metadata |-> FileMetadata(<<FileRow(1, "KG", <<>>)>>, <<>>, off)] : off \in {0, 1} }

(***************************************************************************)
(* The hierarchy store: table configs and rows are created, then tabs,     *)
(* dropdown items and table configs are deleted with their cascades (any   *)
(* write statement of a cascade may fail), and orphans are cleaned up.     *)
(***************************************************************************)
Next ==
  \/ \E body \in ConfigBodies : PostTableConfigs(body, 0)
  \/ \E body \in RowBodies : PostCurriculum(body)
  \/ \E id \in TabIds, fault \in TabFaults : DeleteNavigationTabs(id, fault)
  \/ \E id \in DropdownIds, fault \in DropdownFaults : DeleteDropdownItems(id, fault)
  \/ \E id \in ConfigIds, fault \in ConfigFaults : DeleteTableConfigs(id, fault)
  \/ PostCleanupOrphanedData

Spec == Init /\ [][Next]_vars

(***************************************************************************)
(* Properties of the cascades and of the orphan cleanup (Spec)             *)
(***************************************************************************)
OpDeleteTab == "DELETE /api/navigation-tabs/:id"
OpDeleteDropdown == "DELETE /api/dropdown-items/:id"
OpDeleteConfig == "DELETE /api/table-configs/:id"
OpCleanup == "POST /api/cleanup-orphaned-data"

DropdownIdsOf(tabId) == {i.id : i \in {i \in dropdown_items : i.tabId = tabId}}

\* The table configs under a tab: through their dropdown item or their tabId.
ConfigsUnder(tabId) ==
  {c \in table_configs : c.tabId = tabId \/ c.dropdownId \in DropdownIdsOf(tabId)}

\* C1 - Cascade completeness: after deleteTab(T.id) succeeds, no dropdown
\* item references T, no table config references T or a dropdown item that
\* belonged to T, and no curriculum row carries the tableName of a table
\* config that was under T before the call.
C1_CascadeCompleteness ==
  [][(last'.op = OpDeleteTab /\ last'.status = 204) =>
       LET T == last'.arg[1] IN
       /\ \A i \in dropdown_items' : i.tabId # T
       /\ \A c \in table_configs' : c.tabId # T /\ c.dropdownId \notin DropdownIdsOf(T)
       /\ \A r \in curriculum_rows' :
            r.tableName \notin {c.tableName : c \in ConfigsUnder(T)}]_vars

\* C8 - Cascade atomicity: when deleteTab, deleteDropdownItem or
\* deleteTableConfig fails, the tabs, dropdown items, table configs and
\* curriculum rows (with their standards links) are as before the call.
C8_CascadeAtomicity ==
  [][(last'.op \in {OpDeleteTab, OpDeleteDropdown, OpDeleteConfig} /\ last'.status = 500) =>
       /\ navigation_tabs' = navigation_tabs
       /\ dropdown_items' = dropdown_items
       /\ table_configs' = table_configs
       /\ curriculum_rows' = curriculum_rows
       /\ curriculum_standards' = curriculum_standards]_vars

\* A tab deletion failed at its third write statement, after the rows and
\* the table configs of the tab had been deleted inside the transaction, and
\* the tab still has a dropdown item with a table config and a row of it.
C8_Witness ==
  /\ last.op = OpDeleteTab /\ last.status = 500 /\ last.arg[2] = 3
  /\ \E c \in table_configs :
       /\ c.dropdownId \in DropdownIdsOf(last.arg[1])
       /\ \E r \in curriculum_rows : r.tableName = c.tableName

\* C9 - cleanupOrphanedRows never deletes a curriculum row whose tableName
\* is empty.
C9_CleanupKeepsEmptyTableName ==
  [][last'.op = OpCleanup =>
       \A r \in curriculum_rows : r.tableName = "" => r \in curriculum_rows']_vars

\* An orphaned row: its tableName matches no existing table config.
Orphaned(r) == r.tableName \notin {c.tableName : c \in table_configs}

\* C10 - Idempotent orphan cleanup: a cleanup that directly follows a
\* cleanup deletes nothing and returns 0, and a cleanup made when no row is
\* orphaned changes nothing and returns 0.
C10_CleanupIdempotent ==
  [][(last'.op = OpCleanup /\ (last.op = OpCleanup \/ \A r \in curriculum_rows : ~Orphaned(r))) =>
       /\ last'.deletedCount = 0
       /\ Tables(DB)' = Tables(DB)]_vars

\* A second cleanup ran right after one that had deleted rows, with rows
\* left in the store.
C10_Witness ==
  /\ last.op = OpCleanup /\ last.deletedCount = 0 /\ last.previous > 0
  /\ curriculum_rows # {}

(***************************************************************************)
(* The navigation administration: tabs are created, updated and deleted,   *)
(* dropdown items are added under tab 2 (the Admin tab of a fresh store)   *)
(* and deleted, and files that carry navigation arrays are imported.       *)
(***************************************************************************)
AdminDropdownBodies == {b \in DropdownBodies : b.tabId = 2}

NextAdmin ==
  \/ \E body \in TabBodies : PostNavigationTabs(body)
  \/ \E id \in TabIds, body \in TabPatches : PatchNavigationTabs(id, body)
  \/ \E id \in TabIds : DeleteNavigationTabs(id, 0)
  \/ \E body \in AdminDropdownBodies : PostDropdownItems(body)
  \/ \E id \in DropdownIds : DeleteDropdownItems(id, 0)
  \/ \E body \in NavFiles : PostImportFullDatabase(body, body)

SpecAdmin == Init /\ [][NextAdmin]_vars

(***************************************************************************)
(* Properties of the Admin tab (SpecAdmin)                                 *)
(***************************************************************************)
OpPatchTab == "PATCH /api/navigation-tabs/:id"

\* C2 - Admin immutability: every updateNavigationTab call (any patch the
\* schema lets through, the empty patch and an order >= 100 included) and
\* every deleteNavigationTab call on the tab named "Admin" fails with the
\* protected-tab error of the operation, and no table of the store changes.
C2_AdminImmutability ==
  [][\A t \in navigation_tabs :
       (t.name = "Admin" /\ last'.op \in {OpPatchTab, OpDeleteTab} /\ last'.arg[1] = t.id) =>
         /\ last'.status # 400 =>
              /\ last'.status = 500
              /\ last'.error = IF last'.op = OpPatchTab THEN ErrModifyAdmin ELSE ErrDeleteAdmin
         /\ DB' = DB]_vars

\* The Admin tab, with a dropdown item added to the default one, has just
\* refused a patch that carries an order >= 100.
C2_Witness ==
  /\ last.op = OpPatchTab /\ last.error = ErrModifyAdmin
  /\ "order" \in DOMAIN last.arg[2] /\ last.arg[2].order >= 100
  /\ \E t \in navigation_tabs :
       /\ t.name = "Admin" /\ t.id = last.arg[1]
       /\ Cardinality({i \in dropdown_items : i.tabId = t.id}) > 1

\* C3 - The Admin tab is immutable and undeletable across all operations:
\* a tab named "Admin" that exists before a step exists after it with the
\* same id, name, displayName, order and isActive.
C3_AdminTabInvariant ==
  [][\A t \in navigation_tabs : t.name = "Admin" => t \in navigation_tabs']_vars

(***************************************************************************)
(* Export and import: standards and curriculum rows are created and        *)
(* updated through the public routes, the database is exported, the        *)
(* export is imported back, and files written by hand are imported.        *)
(***************************************************************************)
StandardBodies ==
  { [code |-> c, description |-> "", category |-> "cat"] : c \in {<<"a">>, <<"a", "b">>} }

\* Rows with or without a grade, linked to no standard or to one.
ImportRowBodies ==
  { RowBody(g, "", <<>>) : g \in {"KG", ""} }
  \cup { RowBody("KG", "", <<c>>) : c \in {<<"a">>, <<"a", "b">>} }

RowPatches == { [grade |-> ""], [standards |-> <<>>] }

Without(obj, f) == [k \in DOMAIN obj \ {f} |-> obj[k]]

ImportKinds ==
  {"valid", "metadata mismatch", "missing field", "duplicate ids", "unknown standard",
   "duplicate code", "dangling dropdown", "navigation count mismatch"}

\* The file of each kind.  Timestamps are left out of the model: the
\* navigation entries of a file are taken to carry createdAt and updatedAt.
ImportFile(kind) ==
  LET row == FileRow(1, "KG", << <<"a">> >>)
      std == FileStandard(1, <<"a">>)
      file(rows, stds, off) ==
        [curriculumRows |-> rows, standards |-> stds, metadata |-> FileMetadata(rows, stds, off)]
  IN CASE kind = "valid" -> file(<<row>>, <<std>>, 0)
       [] kind = "metadata mismatch" -> file(<<row>>, <<std>>, 1)
       [] kind = "missing field" -> file(<<Without(row, "grade")>>, <<std>>, 0)
       [] kind = "duplicate ids" -> file(<<row, row>>, <<std>>, 0)
       [] kind = "unknown standard" -> file(<<FileRow(1, "KG", << <<"b">> >>)>>, <<std>>, 0)
       [] kind = "duplicate code" -> file(<<row>>, <<std, FileStandard(2, <<"a">>)>>, 0)
       [] kind = "dangling dropdown" ->
            [curriculumRows |-> <<row>>, standards |-> <<std>>,
             navigationTabs |-> <<FileTab(1, "KG", 0), FileTab(2, "Admin", 10)>>,
             dropdownItems |-> <<[id |-> 1, tabId |-> 3, name |-> "Math",
                                  displayName |-> "Math", order |-> 0, isActive |-> 1]>>,
             metadata |-> [totalCurriculumEntries |-> 1, totalStandards |-> 1,
                           totalNavigationTabs |-> 2, totalDropdownItems |-> 1]]
       [] kind = "navigation count mismatch" ->
            [curriculumRows |-> <<row>>, standards |-> <<std>>,
             navigationTabs |-> <<FileTab(1, "KG", 0), FileTab(2, "Admin", 10)>>,
             metadata |-> [totalCurriculumEntries |-> 1, totalStandards |-> 1,
                           totalNavigationTabs |-> 5]]

NextImport ==
  \/ \E body \in StandardBodies : PostStandards(body)
  \/ \E body \in ImportRowBodies : PostCurriculum(body)
  \/ \E id \in RowIds, body \in RowPatches : PatchCurriculum(id, body)
  \/ GetExportFullDatabase
  \/ PostImportFullDatabase(ExportFullDatabase(DB).value, "export")
  \/ \E kind \in ImportKinds : PostImportFullDatabase(ImportFile(kind), kind)

SpecImport == Init /\ [][NextImport]_vars

(***************************************************************************)
(* Properties of the export and the import (SpecImport)                    *)
(***************************************************************************)
OpImport == "POST /api/import/full-database"

\* C4 - Round-trip validation: in every reachable state the snapshot the
\* full-database export produces passes validateImportDataServer.
C4_ExportPassesValidation ==
  validateImportDataServer(ExportFullDatabase(DB).value).isValid

\* importFullDatabase applied to the export of d.
RoundTrip(d) ==
  LET exported == ExportFullDatabase(d) IN importFullDatabase(exported.db, exported.value)

\* C5 - Round-trip restore: in every reachable state S, importing the
\* export of S succeeds and yields the same tabs, dropdown items, table
\* configs, curriculum rows with their standards, standards and school year.
C5_RoundTripRestore ==
  /\ ~RoundTrip(DB).threw
  /\ Tables(RoundTrip(DB).db) = Tables(DB)

\* C6 - Validation gates mutation: when the validation rejects a payload
\* (the import answers 400), no table of the store changes.
C6_ValidationGatesMutation ==
  [][(last'.op = OpImport /\ last'.status = 400) => DB' = DB]_vars

\* A file whose metadata count does not match its rows was rejected by a
\* store that holds rows and standards the file would have replaced.
C6_Witness ==
  /\ last.op = OpImport /\ last.status = 400 /\ last.arg = "metadata mismatch"
  /\ Cardinality(curriculum_rows) > 1 /\ standards # {}
  /\ ~validateImportDataServer(ImportFile("metadata mismatch")).isValid

\* C7 - importFullDatabase is all-or-nothing: when it fails after it has
\* begun deleting and inserting (the import answers 500), the store is
\* equal, table for table, to the store before the call.
C7_ImportAllOrNothing ==
  [][(last'.op = OpImport /\ last'.status = 500) => DB' = DB]_vars

\* An import failed on a link to a standard the file does not carry, after
\* the deletes and the inserts of the file's standards and rows had run,
\* and the rows and links the store held before are still there.
C7_Witness ==
  /\ last.op = OpImport /\ last.status = 500 /\ last.arg = "unknown standard"
  /\ Cardinality(curriculum_rows) > 1 /\ curriculum_standards # {}

(***************************************************************************)
(* Table configs: they are created (the insert of the sample row may       *)
(* fail), renamed and deleted, next to rows posted directly.               *)
(***************************************************************************)
\* Table configs under a default tab and a default dropdown item, of that
\* tab or of the other one, or under the dropdown item 3, which does not exist.
DefaultTabConfigBodies == {b \in ConfigBodies : b.tabId <= 2 /\ b.dropdownId <= 3}

NextConfigs ==
  \/ \E body \in DefaultTabConfigBodies, fault \in SeedFaults : PostTableConfigs(body, fault)
  \/ \E body \in RowBodies : PostCurriculum(body)
  \/ \E body \in ConfigPatches : PatchTableConfigs(1, body)
  \/ \E id \in ConfigIds : DeleteTableConfigs(id, 0)

SpecConfigs == Init /\ [][NextConfigs]_vars

(***************************************************************************)
(* Properties of table-config creation and deletion (SpecConfigs)          *)
(***************************************************************************)
OpPostConfig == "POST /api/table-configs"

TabOf(body) == CHOOSE t \in navigation_tabs : t.id = body.tabId
DropdownOf(body) == CHOOSE i \in dropdown_items : i.id = body.dropdownId

\* The request names an existing tab and an existing dropdown item.
Creatable(body) ==
  /\ body.tabId \in Ids(navigation_tabs)
  /\ body.dropdownId \in Ids(dropdown_items)

\* C11 - Table-config seeding: creating a table config for an existing
\* dropdown item D and an existing tab T adds exactly one table config and
\* exactly one curriculum row, with grade T.name, subject D.name, the
\* config's tableName, every text field empty and no standard; no other
\* row is added, changed or removed.
C11_TableConfigSeeding ==
  [][(last'.op = OpPostConfig /\ last'.status = 201 /\ last'.arg[2] = 0) =>
       LET body == last'.arg[1] IN
       /\ Creatable(body)
       /\ \E c \in table_configs' \ table_configs :
            /\ table_configs' = table_configs \cup {c}
            /\ c.tableName = body.tableName
            /\ c.tabId = body.tabId /\ c.dropdownId = body.dropdownId
       /\ \E r \in curriculum_rows' \ curriculum_rows :
            /\ curriculum_rows' = curriculum_rows \cup {r}
            /\ r.id \notin Ids(curriculum_rows)
            /\ r.grade = TabOf(body).name
            /\ r.subject = DropdownOf(body).name
            /\ r.tableName = body.tableName
            /\ \A f \in RowFields \ {"grade", "subject", "tableName"} : r[f] = ""
       /\ curriculum_standards' = curriculum_standards]_vars

\* A table config was created for a tab and a dropdown item of another tab
\* while the store already held rows, one of them with the same tableName.
C11_Witness ==
  /\ last.op = OpPostConfig /\ last.status = 201 /\ last.arg[2] = 0
  /\ Cardinality(curriculum_rows) > 1
  /\ Cardinality({r \in curriculum_rows : r.tableName = last.arg[1].tableName}) > 1
  /\ \E i \in dropdown_items : i.id = last.arg[1].dropdownId /\ i.tabId # last.arg[1].tabId

\* C12 - Seeding is best-effort: when the insert of the sample row fails
\* during the creation of a table config, the request still answers 201
\* and the new table config is stored; no row is added.
C12_SeedingBestEffort ==
  [][(last'.op = OpPostConfig /\ last'.arg[2] = 1 /\ Creatable(last'.arg[1])) =>
       /\ last'.status = 201
       /\ \E c \in table_configs' \ table_configs :
            /\ table_configs' = table_configs \cup {c}
            /\ c.tableName = last'.arg[1].tableName
       /\ curriculum_rows' = curriculum_rows]_vars

\* A table config was stored although its sample row could not be: no row
\* carries its tableName.
C12_Witness ==
  /\ last.op = OpPostConfig /\ last.status = 201 /\ last.arg[2] = 1
  /\ \E c \in table_configs :
       /\ c.id = sqlite_sequence.table_configs
       /\ c.tableName = last.arg[1].tableName
       /\ \A r \in curriculum_rows : r.tableName # c.tableName

(***************************************************************************)
(* The tab bar: tabs are created, patched (renamed, hidden, reordered) and *)
(* deleted, navigation files are imported, and the active tabs are read.   *)
(***************************************************************************)
NextTabs ==
  \/ \E body \in TabBodies : PostNavigationTabs(body)
  \/ \E id \in TabIds, body \in OrderPatches : PatchNavigationTabs(id, body)
  \/ \E id \in TabIds : DeleteNavigationTabs(id, 0)
  \/ \E body \in NavFiles : PostImportFullDatabase(body, body)
  \/ GetActiveNavigationTabs

SpecTabs == Init /\ [][NextTabs]_vars

(***************************************************************************)
(* Properties of the tab bar (SpecTabs)                                    *)
(***************************************************************************)
OpGetActiveTabs == "GET /api/navigation-tabs/active"
OpPostTab == "POST /api/navigation-tabs"

\* C13 - Active-tab ordering: getActiveNavigationTabs returns exactly the
\* tabs with isActive set, each once, every non-Admin tab before the Admin
\* tab and the non-Admin tabs in non-decreasing order value.
C13_ActiveTabOrdering ==
  [][last'.op = OpGetActiveTabs =>
       LET v == last'.value IN
       /\ {v[i] : i \in 1..Len(v)} = {t \in navigation_tabs : t.isActive = 1}
       /\ \A i, j \in 1..Len(v) : i < j =>
            /\ v[i] # v[j]
            /\ v[i].name # "Admin"
            /\ v[j].name # "Admin" => v[i].order <= v[j].order]_vars

\* The case of three active tabs with orders 1, 0 (Admin) and 0: the read
\* returned the tab of order 0, the tab of order 1, then Admin.
C13_Witness ==
  /\ last.op = OpGetActiveTabs /\ Len(last.value) = 3
  /\ last.value[1].order = 0 /\ last.value[1].name # "Admin"
  /\ last.value[2].order = 1
  /\ last.value[3].name = "Admin" /\ last.value[3].order = 0

\* The ordinary tab a PATCH addresses, if any.
OrdinaryTarget(id) == {t \in navigation_tabs : t.id = id /\ t.name # "Admin"}

\* A create or an update with an order >= 100 that reaches the store fails
\* with the reserved-order error and changes nothing, whatever else the
\* patch carries.
ReservedOrderRefused ==
  /\ (last'.op = OpPostTab /\ last'.status # 400 /\ last'.arg.order >= 100) =>
        /\ last'.error = ErrReserved
        /\ DB' = DB
  /\ (/\ last'.op = OpPatchTab /\ last'.status # 400
      /\ OrdinaryTarget(last'.arg[1]) # {}
      /\ "order" \in DOMAIN last'.arg[2] /\ last'.arg[2].order >= 100) =>
        /\ last'.error = ErrReserved
        /\ DB' = DB

CountMismatch(body) ==
  \/ Count(body.metadata, "totalCurriculumEntries") # Len(body.curriculumRows)
  \/ Count(body.metadata, "totalStandards") # Len(body.standards)
  \/ /\ "navigationTabs" \in DOMAIN body
     /\ Count(body.metadata, "totalNavigationTabs") # Len(body.navigationTabs)
  \/ /\ "dropdownItems" \in DOMAIN body
     /\ Count(body.metadata, "totalDropdownItems") # Len(body.dropdownItems)
  \/ /\ "tableConfigs" \in DOMAIN body
     /\ Count(body.metadata, "totalTableConfigs") # Len(body.tableConfigs)

\* C15 - Metadata count check: the import rejects (answers 400 to) every
\* file in which metadata.totalCurriculumEntries or totalStandards differs
\* from the length of its array, and every file in which navigationTabs,
\* dropdownItems or tableConfigs is present and its metadata count differs
\* from the array's length.
C15_MetadataCountCheck ==
  [][\A kind \in ImportKinds :
       (last'.op = OpImport /\ last'.arg = kind /\ CountMismatch(ImportFile(kind))) =>
         last'.status = 400]_vars

\* C16 - for every payload that the validation accepts, the import completes
\* successfully: an import that was not answered 400 is answered 200, never
\* aborted by the store on a duplicate id, a duplicate tab name or standard
\* code, a dangling tabId/dropdownId or a row's unknown standard code.
C16_AcceptedImportCompletes ==
  [][(last'.op = OpImport /\ last'.status # 400) => last'.status = 200]_vars

(***************************************************************************)
(* The navigation hierarchy under the operations that write a reference or *)
(* remove a referenced entity: creates and updates of dropdown items and   *)
(* table configs, deletes at the three levels (a statement of the tab      *)
(* cascade may fail), the cleanup, and imports of files with navigation    *)
(* arrays, which are what adds tabs here.                                  *)
(***************************************************************************)
\* Dropdown items under the first tab and under a tab that does not exist.
HierarchyDropdownBodies == {b \in DropdownBodies : b.tabId \in {1, 3}}

\* Table configs under a default pair, and under pairs of which the tab or
\* the dropdown item may not exist.
HierarchyConfigBodies ==
  {b \in ConfigBodies : <<b.tabId, b.dropdownId>> \in {<<1, 1>>, <<1, 3>>, <<3, 1>>}}

\* Updates of the first dropdown item and of the first table config.
HierarchyDropdownPatches == { [isActive |-> FALSE] }
HierarchyConfigPatches == { [order |-> 1] }

\* The statement of the tab cascade that fails: none, or the third.
HierarchyFaults == {0, 3}

FileDropdown(id, tabId) ==
  [id |-> id, tabId |-> tabId, name |-> "Math", displayName |-> "Math", order |-> 0,
   isActive |-> 1]

FileConfig(id, tabId, dropdownId) ==
  [id |-> id, tabId |-> tabId, dropdownId |-> dropdownId, tableName |-> "t1",
   displayName |-> "t1", order |-> 0, isActive |-> 1]

\* Files with a full hierarchy, with tabs only, with dropdown items only and
\* with a table config under a dropdown item the file does not have.
HierarchyFiles ==
  { [curriculumRows |-> <<>>, standards |-> <<>>,
     navigationTabs |-> f[1], dropdownItems |-> f[2], tableConfigs |-> f[3],
     metadata |-> FileMetadata(<<>>, <<>>, 0)] :
      f \in { << <<FileTab(1, "KG", 0), FileTab(2, "Admin", 10)>>,
                 <<FileDropdown(1, 1)>>, <<FileConfig(1, 1, 1)>> >>,
              << <<FileTab(1, "KG", 0)>>, <<>>, <<>> >>,
              << <<>>, <<FileDropdown(1, 1)>>, <<>> >>,
              << <<FileTab(1, "KG", 0)>>, <<FileDropdown(1, 1)>>,
                 <<FileConfig(1, 1, 2)>> >> } }

NextHierarchy ==
  \/ \E body \in HierarchyDropdownBodies : PostDropdownItems(body)
  \/ \E body \in HierarchyConfigBodies : PostTableConfigs(body, 0)
  \/ \E body \in HierarchyDropdownPatches : PatchDropdownItems(1, body)
  \/ \E body \in HierarchyConfigPatches : PatchTableConfigs(1, body)
  \/ \E id \in TabIds, fault \in HierarchyFaults : DeleteNavigationTabs(id, fault)
  \/ \E id \in DropdownIds : DeleteDropdownItems(id, 0)
  \/ \E id \in ConfigIds : DeleteTableConfigs(id, 0)
  \/ PostCleanupOrphanedData
  \/ \E body \in HierarchyFiles : PostImportFullDatabase(body, body)

SpecHierarchy == Init /\ [][NextHierarchy]_vars

\* C17 - in every reachable state, every dropdown item's tabId is the id of
\* an existing tab, and every table config's dropdownId and tabId are the ids
\* of an existing dropdown item and an existing tab.
C17_ReferentialIntegrity ==
  /\ \A i \in dropdown_items : i.tabId \in Ids(navigation_tabs)
  /\ \A c \in table_configs :
       c.dropdownId \in Ids(dropdown_items) /\ c.tabId \in Ids(navigation_tabs)

\* A dropdown item has just been deleted with its cascade while a table
\* config under another dropdown item stays.
C17_Witness ==
  /\ last.op = OpDeleteDropdown /\ last.status = 204
  /\ table_configs # {} /\ Cardinality(table_configs) < sqlite_sequence.table_configs

(***************************************************************************)
(* The school year: reads, updates, and imports of files with and without  *)
(* a schoolYear, the export of the store among them.                       *)
(***************************************************************************)
Years == {"", "2024-2025", "2026-2027"}

FileSchoolYears ==
  { [id |-> id, year |-> year] : id \in 1..MaxSchoolYearId, year \in Years \ {""} }
  \cup { [id |-> 1] }

SchoolYearFiles ==
  { [curriculumRows |-> <<>>, standards |-> <<>>, metadata |-> FileMetadata(<<>>, <<>>, 0)] }
  \cup
  { [curriculumRows |-> <<>>, standards |-> <<>>, schoolYear |-> y,
     metadata |-> FileMetadata(<<>>, <<>>, off)] : y \in FileSchoolYears, off \in {0, 1} }

NextSchoolYear ==
  \/ GetSchoolYear
  \/ \E year \in Years : PatchSchoolYear(year)
  \/ PostImportFullDatabase(ExportFullDatabase(DB).value, "export")
  \/ \E body \in SchoolYearFiles : PostImportFullDatabase(body, body)

SpecSchoolYear == Init /\ [][NextSchoolYear]_vars

OpPatchSchoolYear == "PATCH /api/school-year"

C19_DeleteTableConfig ==
  [][(last'.op = OpDeleteConfig /\ last'.arg[2] = 0) =>
       LET found == {c \in table_configs : c.id = last'.arg[1]} IN
       IF found # {}
         THEN /\ last'.status = 204
              /\ \A c \in table_configs' : c.id # last'.arg[1]
              /\ \A c \in found : \A r \in curriculum_rows' : r.tableName # c.tableName
         ELSE /\ last'.status = 404
              /\ UNCHANGED <<navigation_tabs, dropdown_items, table_configs, curriculum_rows,
                             standards, curriculum_standards, school_year, sqlite_sequence>>]_vars

\* A table config has just been deleted with rows of its table, and a row
\* of another table stays.
C19_Witness ==
  /\ last.op = OpDeleteConfig /\ last.status = 204
  /\ curriculum_rows # {}
  /\ Cardinality(curriculum_rows) < sqlite_sequence.curriculum_rows

(***************************************************************************)
(* Table-config creation among concurrent requests: the creating handler   *)
(* in its two steps, a reader (the export) and two writers.                *)
(***************************************************************************)
\* Table configs under a dropdown item of their tab.
SeedingBodies == {b \in ConfigBodies : b.tabId = b.dropdownId}

NextSeeding ==
  \/ \E body \in SeedingBodies : PostTableConfigsCreate(body, 0)
  \/ \E request \in suspended : PostTableConfigsSeed(request)
  \/ GetExportFullDatabase
  \/ \E body \in RowBodies : PostCurriculum(body)
  \/ \E id \in ConfigIds : DeleteTableConfigs(id, 0)

SpecSeeding == Init /\ [][NextSeeding]_vars

\* C20 - Table-config creation with its seeded row is atomic to concurrent
\* callers: no request of a reader or of another writer runs in a state in
\* which a new table config is stored while the handler that created it has
\* not yet stored its seed row.
C20_SeedingAtomic ==
  [][(suspended' = suspended) => \A request \in suspended : request.config \notin table_configs]_vars

(***************************************************************************)
(* Properties of the orphan cleanup, continued (Spec)                      *)
(***************************************************************************)
\* C21 - After the cleanup returns n, exactly n curriculum rows were
\* removed, every remaining row with a non-empty tableName matches the
\* tableName of an existing table config, and no row whose tableName matched
\* an existing table config was removed.
C21_CleanupRemovesOrphansOnly ==
  [][last'.op = OpCleanup =>
       /\ curriculum_rows' \subseteq curriculum_rows
       /\ Cardinality(curriculum_rows \ curriculum_rows') = last'.deletedCount
       /\ \A r \in curriculum_rows' :
            r.tableName # "" => r.tableName \in {c.tableName : c \in table_configs'}
       /\ \A r \in curriculum_rows : ~Orphaned(r) => r \in curriculum_rows']_vars

\* A cleanup has just removed rows and left a row of an existing table.
C21_Witness ==
  /\ last.op = OpCleanup /\ last.deletedCount > 0
  /\ \E r \in curriculum_rows : r.tableName # "" /\ ~Orphaned(r)

(***************************************************************************)
(* Curriculum rows and their standards links: standards and rows are       *)
(* created, rows are updated and deleted, with standards codes that are in *)
(* the standards table and codes that are not.                             *)
(***************************************************************************)
LinkedRowBodies ==
  { RowBody("KG", "", codes) : codes \in {<<>>, << <<"a">> >>, << <<"a">>, <<"b">> >>} }

LinkedRowPatches ==
  { [grade |-> "G1"],
    [standards |-> <<>>],
    [standards |-> << <<"a">> >>],
    [grade |-> "", standards |-> << <<"a">>, <<"b">> >>] }

NextRows ==
  \/ \E body \in StandardBodies : PostStandards(body)
  \/ \E body \in LinkedRowBodies : PostCurriculum(body)
  \/ \E id \in RowIds, body \in LinkedRowPatches : PatchCurriculum(id, body)
  \/ \E id \in RowIds : DeleteCurriculum(id)

SpecRows == Init /\ [][NextRows]_vars

OpPostRow == "POST /api/curriculum"
OpPatchRow == "PATCH /api/curriculum/:id"

\* The codes of a request that no standard of the store has.
UnknownCodes(codes) ==
  {codes[k] : k \in 1..Len(codes)} \ {s.code : s \in standards}

\* C22 - Soft standards reference: a create or an update of a curriculum row
\* whose standards hold a code that is not in the standards table succeeds,
\* and the stored row is linked to that code.
C22_SoftStandardsReference ==
  [][/\ (last'.op = OpPostRow /\ UnknownCodes(last'.arg.standards) # {}) =>
          /\ last'.status = 201
          /\ \A code \in UnknownCodes(last'.arg.standards) :
               [curriculum_id |-> sqlite_sequence'.curriculum_rows, standard_code |-> code]
                 \in curriculum_standards'
     /\ (/\ last'.op = OpPatchRow
         /\ last'.arg[1] \in Ids(curriculum_rows)
         /\ "standards" \in DOMAIN last'.arg[2]
         /\ UnknownCodes(last'.arg[2].standards) # {}) =>
          /\ last'.status = 200
          /\ \A code \in UnknownCodes(last'.arg[2].standards) :
               [curriculum_id |-> last'.arg[1], standard_code |-> code]
                 \in curriculum_standards']_vars

(***************************************************************************)
(* The import validation on its own, over files whose rows, standards and  *)
(* metadata are right or wrong in one or several ways at once.             *)
(***************************************************************************)
ValidatorRows ==
  { FileRow(1, "KG", <<>>), FileRow(2, "KG", <<>>), FileRow(0, "KG", <<>>),
    FileRow(1, " ", <<>>), Without(FileRow(2, "KG", <<>>), "grade"),
    [FileRow(2, "KG", <<>>) EXCEPT !.subject = " "] }

ValidatorStandards ==
  { FileStandard(1, <<"a">>), FileStandard(0, <<"a">>), FileStandard(1, <<" ">>),
    Without(FileStandard(1, <<"a">>), "code") }

\* Sequences of at most two elements of a set.
UpToTwo(S) == {<<>>} \cup {<<a>> : a \in S} \cup {<<a, b>> : a \in S, b \in S}

\* A file with more rows than the limit, each of them without a grade.
OversizedFile ==
  [curriculumRows |-> [i \in 1..(MaxImportRows + 1) |-> Without(FileRow(1, "KG", <<>>), "grade")],
   standards |-> <<>>,
   metadata |-> [totalCurriculumEntries |-> 0, totalStandards |-> 0]]

ValidatorFiles ==
  { [curriculumRows |-> rows, standards |-> stds,
     metadata |-> [totalCurriculumEntries |-> Len(rows) + a, totalStandards |-> Len(stds) + b]] :
      rows \in UpToTwo(ValidatorRows),
      stds \in {<<>>, <<FileStandard(1, <<"a">>), FileStandard(1, <<"a">>)>>}
                 \cup {<<st>> : st \in ValidatorStandards},
      a \in {0, 1}, b \in {0, 1} }
  \cup { Without(ImportFile("valid"), f) : f \in {"curriculumRows", "standards", "metadata"} }
  \cup { OversizedFile }

NextValidator == \E body \in ValidatorFiles : ValidateImportDataServer(body)

SpecValidator == Init /\ [][NextValidator]_vars

OpValidate == "validateImportDataServer"

\* The place of a check in the fixed order: the group (1 the arrays and the
\* metadata are there, 2 the size limits, 3 the rows, 4 the standards, 5 the
\* metadata counts), the element's position, the check within the element.
Place(group, position, check) == group * 10000000 + position * 100 + check

\* Everything that is wrong with row i, each with its place.
RowViolations(rows, i) ==
  LET row == rows[i]
      has(f) == f \in DOMAIN row
      at(check, e) == [place |-> Place(3, i, check), error |-> e] IN
  { at(k, <<"Curriculum row missing required field", i, requiredCurriculumFields[k]>>) :
      k \in {k \in 1..Len(requiredCurriculumFields) : ~has(requiredCurriculumFields[k])} }
  \cup (IF has("id") /\ row.id <= 0
          THEN {at(10, <<"Curriculum row has invalid ID", i>>)} ELSE {})
  \cup (IF has("id") /\ \E j \in 1..(i - 1) : "id" \in DOMAIN rows[j] /\ rows[j].id = row.id
          THEN {at(11, <<"Duplicate curriculum row ID", row.id>>)} ELSE {})
  \cup (IF has("grade") /\ Trim(row.grade) = ""
          THEN {at(12, <<"Curriculum row has invalid grade", i>>)} ELSE {})
  \cup (IF has("subject") /\ Trim(row.subject) = ""
          THEN {at(13, <<"Curriculum row has invalid subject", i>>)} ELSE {})

\* Everything that is wrong with standard i, each with its place.
StandardViolations(stds, i) ==
  LET standard == stds[i]
      has(f) == f \in DOMAIN standard
      at(check, e) == [place |-> Place(4, i, check), error |-> e] IN
  { at(k, <<"Standard missing required field", i, requiredStandardFields[k]>>) :
      k \in {k \in 1..Len(requiredStandardFields) : ~has(requiredStandardFields[k])} }
  \cup (IF has("id") /\ standard.id <= 0
          THEN {at(10, <<"Standard has invalid ID", i>>)} ELSE {})
  \cup (IF has("id") /\ \E j \in 1..(i - 1) : "id" \in DOMAIN stds[j] /\ stds[j].id = standard.id
          THEN {at(11, <<"Duplicate standard ID", standard.id>>)} ELSE {})
  \cup (IF has("code") /\ BlankCode(standard.code)
          THEN {at(12, <<"Standard has invalid code", i>>)} ELSE {})
  \cup (IF has("category") /\ Trim(standard.category) = ""
          THEN {at(13, <<"Standard has invalid category", i>>)} ELSE {})

\* Everything that is wrong with a file, each with its place.
Violations(body) ==
  LET absent == {"curriculumRows", "standards", "metadata"} \ DOMAIN body IN
  IF absent # {}
    THEN { [place |-> Place(1, 0, IF f = "curriculumRows" THEN 1 ELSE IF f = "standards" THEN 2 ELSE 3),
            error |-> << IF f = "metadata" THEN "metadata must be an object"
                         ELSE IF f = "standards" THEN "standards must be an array"
                         ELSE "curriculumRows must be an array" >>] : f \in absent }
  ELSE
    (IF Len(body.curriculumRows) > MaxImportRows
       THEN {[place |-> Place(2, 0, 1), error |-> <<"Too many curriculum rows (max 10,000)">>]}
       ELSE {})
    \cup (IF Len(body.standards) > MaxImportStandards
            THEN {[place |-> Place(2, 0, 2), error |-> <<"Too many standards (max 1,000)">>]}
            ELSE {})
    \cup UNION {RowViolations(body.curriculumRows, i) : i \in 1..Len(body.curriculumRows)}
    \cup UNION {StandardViolations(body.standards, i) : i \in 1..Len(body.standards)}
    \cup (IF Count(body.metadata, "totalCurriculumEntries") # Len(body.curriculumRows)
            THEN {[place |-> Place(5, 0, 1),
                   error |-> <<"Metadata totalCurriculumEntries doesn't match actual curriculum rows count">>]}
            ELSE {})
    \cup (IF Count(body.metadata, "totalStandards") # Len(body.standards)
            THEN {[place |-> Place(5, 0, 2),
                   error |-> <<"Metadata totalStandards doesn't match actual standards count">>]}
            ELSE {})

\* C23 - Validator fail-fast order: the validation reports exactly one
\* violation, the first one in the fixed order (arrays present, size limits,
\* the rows in row order, the standards in order, metadata counts), and it
\* accepts exactly the files with no violation.
C23_ValidatorFailFast ==
  last.op = OpValidate =>
    LET found == Violations(last.arg) IN
    IF found = {} THEN last.status = 200 /\ last.error = <<>>
    ELSE /\ last.status = 400
         /\ \E v \in found : /\ \A w \in found : v.place <= w.place
                             /\ last.error = v.error

\* A file with a duplicate row id and a metadata count that is off has just
\* been rejected for the duplicate id.
C23_Witness ==
  /\ last.op = OpValidate /\ last.status = 400
  /\ last.error[1] = "Duplicate curriculum row ID"
  /\ \E v \in Violations(last.arg) : v.place >= Place(5, 0, 0)

(***************************************************************************)
(* Properties of the import, continued (SpecImport)                        *)
(***************************************************************************)
\* C24 - The import deletes navigation data only when navigation arrays are
\* supplied: after the import of a file that has none of navigationTabs,
\* dropdownItems, tableConfigs, all tabs, dropdown items and table configs
\* are unchanged, and after the import of a file with no schoolYear the
\* school-year record is unchanged.
C24_ImportFrame ==
  [][\A kind \in ImportKinds :
       (last'.op = OpImport /\ last'.arg = kind) =>
         /\ (DOMAIN ImportFile(kind) \cap {"navigationTabs", "dropdownItems", "tableConfigs"} = {}) =>
              UNCHANGED <<navigation_tabs, dropdown_items, table_configs>>
         /\ ("schoolYear" \notin DOMAIN ImportFile(kind)) => UNCHANGED school_year]_vars

\* A file without navigation arrays has just been imported into a store
\* whose dropdown items an earlier import had removed: the rows are the
\* file's and the navigation is as that import left it.
C24_Witness ==
  /\ last.op = OpImport /\ last.arg = "valid" /\ last.status = 200
  /\ curriculum_rows # {} /\ navigation_tabs # {} /\ dropdown_items = {}


(***************************************************************************)
(* Properties of the cascades, continued (Spec)                            *)
(***************************************************************************)
\* A row of a table config: the row carries the config's tableName, the name
\* of the config's tab as grade and of its dropdown item as subject.
BelongsTo(r, c) ==
  /\ r.tableName = c.tableName
  /\ \E t \in navigation_tabs : t.id = c.tabId /\ t.name = r.grade
  /\ \E i \in dropdown_items : i.id = c.dropdownId /\ i.name = r.subject

NextInterleaving ==
  \/ \E body \in SeedingBodies : PostTableConfigsCreate(body, 0)
  \/ \E request \in suspended : PostTableConfigsSeed(request)
  \/ \E id \in ConfigIds : DeleteTableConfigs(id, 0)
  \/ \E id \in DropdownIds : DeleteDropdownItems(id, 0)
  \/ \E id \in TabIds : DeleteNavigationTabs(id, 0)

SpecInterleaving == Init /\ [][NextInterleaving]_vars

\* C26 - For any interleaving of a table-config creation request (config
\* insert, then lookups, then seed-row insert) with a deleteTableConfig,
\* deleteDropdownItem or deleteTab request that removes that config, once
\* both requests have completed no curriculum row carries the config's
\* tableName without an existing table config of that tableName.
C26_NoOrphanAfterInterleaving ==
  suspended = {} =>
    \A r \in curriculum_rows : r.tableName \in {c.tableName : c \in table_configs}

(***************************************************************************)
(* Properties of the hierarchy, continued (Spec)                           *)
(***************************************************************************)
\* C27 - Hierarchy consistency: in every reachable state, each table
\* config's tabId equals the tabId of the dropdown item named by its
\* dropdownId.
C27_HierarchyConsistency ==
  \A c \in table_configs :
    \A i \in dropdown_items : i.id = c.dropdownId => i.tabId = c.tabId

(***************************************************************************)
(* Properties of the table-config update (SpecConfigs)                     *)
(***************************************************************************)
OpPatchConfig == "PATCH /api/table-configs/:id"

\* C28 - updateTableConfig that changes a config's tableName creates no
\* orphans: every curriculum row that matched the config's old tableName
\* before the call matches the tableName of an existing table config after
\* the call.
C28_RenameCreatesNoOrphans ==
  [][(last'.op = OpPatchConfig /\ last'.status = 200) =>
       \A c \in table_configs :
         (c.id = last'.arg[1] /\ "tableName" \in DOMAIN last'.arg[2]
            /\ last'.arg[2].tableName # c.tableName) =>
           \A r \in curriculum_rows' :
             r.tableName = c.tableName =>
               r.tableName \in {n.tableName : n \in table_configs'}]_vars

(***************************************************************************)
(* Properties of the curriculum rows, continued (SpecRows)                 *)
(***************************************************************************)
\* C29 - createCurriculumRow and updateCurriculumRow are all-or-nothing:
\* when the call fails (while writing the row's standards links, or because
\* the id is unknown), no curriculum row is added and no field or standards
\* link of an existing row is changed.
C29_RowWritesAllOrNothing ==
  [][(last'.op \in {OpPostRow, OpPatchRow} /\ last'.status >= 400) =>
       /\ curriculum_rows' = curriculum_rows
       /\ curriculum_standards' = curriculum_standards]_vars

(***************************************************************************)
(* The two import validations side by side, over the same files: files     *)
(* right or wrong in their rows, standards and counts, files without rows  *)
(* or standards, a file with navigation arrays and a file of well-formed   *)
(* rows above the server's limit.                                          *)
(***************************************************************************)
OversizedValidFile ==
  [curriculumRows |-> [i \in 1..(MaxImportRows + 1) |-> FileRow(i, "KG", <<>>)],
   standards |-> <<FileStandard(1, <<"a">>)>>,
   metadata |-> [totalCurriculumEntries |-> MaxImportRows + 1, totalStandards |-> 1]]

ComparedFiles ==
  { [curriculumRows |-> rows, standards |-> stds,
     metadata |-> [totalCurriculumEntries |-> Len(rows) + a, totalStandards |-> Len(stds)]] :
      rows \in UpToTwo({FileRow(1, "KG", <<>>), FileRow(1, " ", <<>>)}),
      stds \in {<<>>, <<FileStandard(1, <<"a">>)>>,
                <<FileStandard(1, <<"a">>), FileStandard(1, <<"a">>)>>,
                <<FileStandard(1, <<"a">>), FileStandard(2, <<"b">>)>>},
      a \in {0, 1} }
  \cup { ImportFile(kind) : kind \in ImportKinds }
  \cup { Without(ImportFile("valid"), f) : f \in {"curriculumRows", "standards", "metadata"} }
  \cup { OversizedValidFile }

NextValidators ==
  \/ \E data \in ComparedFiles : ValidateImportData(data)
  \/ \E body \in ComparedFiles : ValidateImportDataServer(body)

SpecValidators == Init /\ [][NextValidators]_vars

OpValidateClient == "validateImportData"

\* C30 - The client-side import validator (validateImportData) and the
\* server-side import validator (validateImportDataServer) accept exactly
\* the same payloads: a payload is accepted by one if and only if it is
\* accepted by the other.
C30_ValidatorsAgree ==
  /\ last.op = OpValidateClient =>
       ((last.status = 200) <=> validateImportDataServer(last.arg).isValid)
  /\ last.op = OpValidate =>
       ((last.status = 200) <=> validateImportData(last.arg).isValid)
====
